---------------------------- MODULE Spec2Model ----------------------------
(***************************************************************************)
(* Bulk import pipeline of the eagl backend: upload, validate, confirm and *)
(* worker-run of import jobs (app/api/v1/bulk.py), the validation and      *)
(* apply engines (app/bulk/importer.py), the tabular reader                *)
(* (app/bulk/parser.py) and the entity configuration (app/bulk/config.py). *)
(*                                                                         *)
(* Texts are sequences of one-character strings, so that strip, lower,     *)
(* digit filtering, keyword search and header normalisation are computed   *)
(* as the code computes them.  An accented letter is one token of two      *)
(* characters (the base letter followed by the accent mark, e.g. "a~").    *)
(***************************************************************************)
EXTENDS Integers, Sequences, FiniteSets, TLC

(***************************************************************************)
(* Bounds of the model.                                                    *)
(***************************************************************************)
\* Longest file body (data rows after the instruction row) that is uploaded.
MaxRows == 2
\* The data rows of a file that lacks a required column: at most this many.
MaxRowsShapeless == MaxRows - 1
\* A user asks for an export while holding fewer files than this.
MaxFilesForExport == 1
\* A worker process is killed after at most this many commits of chunks.
MaxCommits == 2
\* The worker processes of a job are killed at most this many times.
MaxKills == 1

(***************************************************************************)
(* Python values.                                                          *)
(***************************************************************************)
\* None in a text position: a token that no text of a file can equal.
None == <<"<None>">>
\* A JSON column holding NULL.
Null == [null |-> TRUE]
\* A foreign key holding NULL.
NoId == 0

\* A local variable: value is computed once and Body reads it by name.
Bind(value, Body(_)) == CHOOSE r \in {Body(v) : v \in {value}} : TRUE

Whitespace == {" ", "\t", "\n"}
Digits == {"0", "1", "2", "3", "4", "5", "6", "7", "8", "9"}
UpperChars == <<"A", "B", "C", "D", "E", "F", "G", "H", "I", "J", "K", "L", "M",
                "N", "O", "P", "Q", "R", "S", "T", "U", "V", "W", "X", "Y", "Z">>
LowerChars == <<"a", "b", "c", "d", "e", "f", "g", "h", "i", "j", "k", "l", "m",
                "n", "o", "p", "q", "r", "s", "t", "u", "v", "w", "x", "y", "z">>
LowerSet == {LowerChars[i] : i \in 1..26}
\* Accented tokens and their NFKD base letter (the combining mark is dropped).
AccentBase == ("a~" :> "a") @@ ("A~" :> "A") @@ ("c," :> "c") @@ ("C," :> "C")
              @@ ("o'" :> "o") @@ ("O'" :> "O") @@ ("e'" :> "e") @@ ("E'" :> "E")
\* str.lower() of the accented capitals.
AccentLower == ("A~" :> "a~") @@ ("C," :> "c,") @@ ("O'" :> "o'") @@ ("E'" :> "e'")

RECURSIVE SelectChars(_, _)
\* "".join(ch for ch in s if ch in keep)
SelectChars(s, keep) ==
  IF s = <<>> THEN <<>>
  ELSE IF Head(s) \in keep THEN <<Head(s)>> \o SelectChars(Tail(s), keep)
       ELSE SelectChars(Tail(s), keep)

\* str.lower() on one character.
LowerChar(c) ==
  IF c \in DOMAIN AccentLower THEN AccentLower[c]
  ELSE IF \E i \in 1..26 : UpperChars[i] = c
       THEN LowerChars[CHOOSE i \in 1..26 : UpperChars[i] = c]
       ELSE c

\* str.lower()
Lower(s) == [i \in 1..Len(s) |-> LowerChar(s[i])]

RECURSIVE LStrip(_)
LStrip(s) == IF s # <<>> /\ Head(s) \in Whitespace THEN LStrip(Tail(s)) ELSE s

RECURSIVE RStrip(_)
RStrip(s) ==
  IF s # <<>> /\ s[Len(s)] \in Whitespace THEN RStrip(SubSeq(s, 1, Len(s) - 1)) ELSE s

\* str.strip()
Strip(s) == RStrip(LStrip(s))

\* needle in hay (substring test)
Contains(hay, needle) ==
  \E i \in 1..(Len(hay) - Len(needle) + 1) : SubSeq(hay, i, i + Len(needle) - 1) = needle

\* str.upper() on the texts the importer upper-cases.
Upper(s) ==
  [i \in 1..Len(s) |->
     IF \E k \in 1..26 : LowerChars[k] = s[i]
     THEN UpperChars[CHOOSE k \in 1..26 : LowerChars[k] = s[i]]
     ELSE s[i]]

(***************************************************************************)
(* app/bulk/config.py                                                      *)
(***************************************************************************)
Entities == {"employees", "clients", "sites", "assets", "os_types", "questionnaires"}

\* ENTITY_CONFIGS[entity].template_columns
template_columns ==
  [ employees |-> <<
      [key |-> "nome", required |-> TRUE,
       label |-> <<"N", "o", "m", "e">>,
       keyText |-> <<"n", "o", "m", "e">>],
      [key |-> "funcao", required |-> TRUE,
       label |-> <<"F", "u", "n", "c", "a", "o">>,
       keyText |-> <<"f", "u", "n", "c", "a", "o">>],
      [key |-> "email", required |-> TRUE,
       label |-> <<"E", "m", "a", "i", "l">>,
       keyText |-> <<"e", "m", "a", "i", "l">>],
      [key |-> "telefone", required |-> FALSE,
       label |-> <<"T", "e", "l", "e", "f", "o", "n", "e">>,
       keyText |-> <<"t", "e", "l", "e", "f", "o", "n", "e">>],
      [key |-> "status", required |-> FALSE,
       label |-> <<"S", "t", "a", "t", "u", "s">>,
       keyText |-> <<"s", "t", "a", "t", "u", "s">>],
      [key |-> "contrato", required |-> FALSE,
       label |-> <<"C", "o", "n", "t", "r", "a", "t", "o">>,
       keyText |-> <<"c", "o", "n", "t", "r", "a", "t", "o">>],
      [key |-> "unidade", required |-> FALSE,
       label |-> <<"U", "n", "i", "d", "a", "d", "e">>,
       keyText |-> <<"u", "n", "i", "d", "a", "d", "e">>],
      [key |-> "coordenador_nome", required |-> FALSE,
       label |-> <<"C", "o", "o", "r", "d", "e", "n", "a", "d", "o", "r">>,
       keyText |-> <<"c", "o", "o", "r", "d", "e", "n", "a", "d", "o", "r", "_", "n", "o", "m", "e">>],
      [key |-> "supervisor_nome", required |-> FALSE,
       label |-> <<"S", "u", "p", "e", "r", "v", "i", "s", "o", "r">>,
       keyText |-> <<"s", "u", "p", "e", "r", "v", "i", "s", "o", "r", "_", "n", "o", "m", "e">>],
      [key |-> "especialidades", required |-> FALSE,
       label |-> <<"E", "s", "p", "e", "c", "i", "a", "l", "i", "d", "a", "d", "e", "s">>,
       keyText |-> <<"e", "s", "p", "e", "c", "i", "a", "l", "i", "d", "a", "d", "e", "s">>],
      [key |-> "observacoes", required |-> FALSE,
       label |-> <<"O", "b", "s", "e", "r", "v", "a", "c", "o", "e", "s">>,
       keyText |-> <<"o", "b", "s", "e", "r", "v", "a", "c", "o", "e", "s">>]
    >>,
    clients |-> <<
      [key |-> "name", required |-> TRUE,
       label |-> <<"N", "o", "m", "e">>,
       keyText |-> <<"n", "a", "m", "e">>],
      [key |-> "client_code", required |-> FALSE,
       label |-> <<"C", "o", "d", "i", "g", "o", " ", "d", "o", " ", "c", "l", "i", "e", "n", "t", "e">>,
       keyText |-> <<"c", "l", "i", "e", "n", "t", "_", "c", "o", "d", "e">>],
      [key |-> "document", required |-> FALSE,
       label |-> <<"C", "N", "P", "J">>,
       keyText |-> <<"d", "o", "c", "u", "m", "e", "n", "t">>],
      [key |-> "status", required |-> FALSE,
       label |-> <<"S", "t", "a", "t", "u", "s">>,
       keyText |-> <<"s", "t", "a", "t", "u", "s">>],
      [key |-> "contract", required |-> FALSE,
       label |-> <<"C", "o", "n", "t", "r", "a", "t", "o">>,
       keyText |-> <<"c", "o", "n", "t", "r", "a", "c", "t">>],
      [key |-> "address", required |-> FALSE,
       label |-> <<"E", "n", "d", "e", "r", "e", "c", "o">>,
       keyText |-> <<"a", "d", "d", "r", "e", "s", "s">>]
    >>,
    sites |-> <<
      [key |-> "site_code", required |-> TRUE,
       label |-> <<"C", "o", "d", "i", "g", "o", " ", "d", "o", " ", "s", "i", "t", "e">>,
       keyText |-> <<"s", "i", "t", "e", "_", "c", "o", "d", "e">>],
      [key |-> "name", required |-> TRUE,
       label |-> <<"N", "o", "m", "e">>,
       keyText |-> <<"n", "a", "m", "e">>],
      [key |-> "customer_account_cnpj", required |-> FALSE,
       label |-> <<"C", "N", "P", "J", " ", "d", "o", " ", "c", "l", "i", "e", "n", "t", "e">>,
       keyText |-> <<"c", "u", "s", "t", "o", "m", "e", "r", "_", "a", "c", "c", "o", "u", "n", "t", "_", "c", "n", "p", "j">>],
      [key |-> "customer_account_name", required |-> FALSE,
       label |-> <<"N", "o", "m", "e", " ", "d", "o", " ", "c", "l", "i", "e", "n", "t", "e">>,
       keyText |-> <<"c", "u", "s", "t", "o", "m", "e", "r", "_", "a", "c", "c", "o", "u", "n", "t", "_", "n", "a", "m", "e">>],
      [key |-> "status", required |-> FALSE,
       label |-> <<"S", "t", "a", "t", "u", "s">>,
       keyText |-> <<"s", "t", "a", "t", "u", "s">>],
      [key |-> "address", required |-> FALSE,
       label |-> <<"E", "n", "d", "e", "r", "e", "c", "o">>,
       keyText |-> <<"a", "d", "d", "r", "e", "s", "s">>]
    >>,
    assets |-> <<
      [key |-> "tag", required |-> TRUE,
       label |-> <<"T", "a", "g">>,
       keyText |-> <<"t", "a", "g">>],
      [key |-> "name", required |-> TRUE,
       label |-> <<"N", "o", "m", "e">>,
       keyText |-> <<"n", "a", "m", "e">>],
      [key |-> "asset_type", required |-> FALSE,
       label |-> <<"T", "i", "p", "o">>,
       keyText |-> <<"a", "s", "s", "e", "t", "_", "t", "y", "p", "e">>],
      [key |-> "status", required |-> FALSE,
       label |-> <<"S", "t", "a", "t", "u", "s">>,
       keyText |-> <<"s", "t", "a", "t", "u", "s">>],
      [key |-> "client_cnpj", required |-> FALSE,
       label |-> <<"C", "N", "P", "J", " ", "d", "o", " ", "c", "l", "i", "e", "n", "t", "e">>,
       keyText |-> <<"c", "l", "i", "e", "n", "t", "_", "c", "n", "p", "j">>],
      [key |-> "client_code", required |-> FALSE,
       label |-> <<"C", "o", "d", "i", "g", "o", " ", "d", "o", " ", "c", "l", "i", "e", "n", "t", "e">>,
       keyText |-> <<"c", "l", "i", "e", "n", "t", "_", "c", "o", "d", "e">>],
      [key |-> "site_code", required |-> FALSE,
       label |-> <<"C", "o", "d", "i", "g", "o", " ", "d", "o", " ", "s", "i", "t", "e">>,
       keyText |-> <<"s", "i", "t", "e", "_", "c", "o", "d", "e">>]
    >>,
    os_types |-> <<
      [key |-> "name", required |-> TRUE,
       label |-> <<"N", "o", "m", "e">>,
       keyText |-> <<"n", "a", "m", "e">>],
      [key |-> "description", required |-> FALSE,
       label |-> <<"D", "e", "s", "c", "r", "i", "c", "a", "o">>,
       keyText |-> <<"d", "e", "s", "c", "r", "i", "p", "t", "i", "o", "n">>],
      [key |-> "client_cnpj", required |-> FALSE,
       label |-> <<"C", "N", "P", "J", " ", "d", "o", " ", "c", "l", "i", "e", "n", "t", "e">>,
       keyText |-> <<"c", "l", "i", "e", "n", "t", "_", "c", "n", "p", "j">>],
      [key |-> "client_code", required |-> FALSE,
       label |-> <<"C", "o", "d", "i", "g", "o", " ", "d", "o", " ", "c", "l", "i", "e", "n", "t", "e">>,
       keyText |-> <<"c", "l", "i", "e", "n", "t", "_", "c", "o", "d", "e">>],
      [key |-> "is_active", required |-> FALSE,
       label |-> <<"A", "t", "i", "v", "o">>,
       keyText |-> <<"i", "s", "_", "a", "c", "t", "i", "v", "e">>]
    >>,
    questionnaires |-> <<
      [key |-> "title", required |-> TRUE,
       label |-> <<"T", "i", "t", "u", "l", "o", " ", "d", "o", " ", "q", "u", "e", "s", "t", "i", "o", "n", "a", "r", "i", "o">>,
       keyText |-> <<"t", "i", "t", "l", "e">>],
      [key |-> "version", required |-> FALSE,
       label |-> <<"V", "e", "r", "s", "a", "o">>,
       keyText |-> <<"v", "e", "r", "s", "i", "o", "n">>],
      [key |-> "question_text", required |-> TRUE,
       label |-> <<"P", "e", "r", "g", "u", "n", "t", "a">>,
       keyText |-> <<"q", "u", "e", "s", "t", "i", "o", "n", "_", "t", "e", "x", "t">>],
      [key |-> "required", required |-> FALSE,
       label |-> <<"P", "e", "r", "g", "u", "n", "t", "a", " ", "o", "b", "r", "i", "g", "a", "t", "o", "r", "i", "a", "?">>,
       keyText |-> <<"r", "e", "q", "u", "i", "r", "e", "d">>],
      [key |-> "answer_type", required |-> TRUE,
       label |-> <<"T", "i", "p", "o", " ", "d", "e", " ", "r", "e", "s", "p", "o", "s", "t", "a">>,
       keyText |-> <<"a", "n", "s", "w", "e", "r", "_", "t", "y", "p", "e">>],
      [key |-> "items", required |-> FALSE,
       label |-> <<"I", "t", "e", "n", "s", " ", "d", "a", " ", "p", "e", "r", "g", "u", "n", "t", "a">>,
       keyText |-> <<"i", "t", "e", "m", "s">>]
    >> ]

\* ENTITY_CONFIGS[entity].unique_key_groups
unique_key_groups ==
  [ employees |-> <<<<"email">>>>,
    clients |-> <<<<"document">>, <<"client_code">>>>,
    sites |-> <<<<"site_code", "customer_account_cnpj">>, <<"site_code">>>>,
    assets |-> <<<<"tag">>>>,
    os_types |-> <<<<"name", "client_cnpj">>, <<"name">>>>,
    questionnaires |-> <<<<"title", "version">>>> ]

\* ENTITY_CONFIGS[entity].transformers, by the name of the function
transformers ==
  [ employees |->
      [nome |-> "normalize_text", funcao |-> "normalize_text", email |-> "normalize_email",
       telefone |-> "normalize_phone", status |-> "normalize_text",
       contrato |-> "normalize_text", unidade |-> "normalize_text",
       coordenador_nome |-> "normalize_text", supervisor_nome |-> "normalize_text",
       especialidades |-> "normalize_list", observacoes |-> "normalize_text"],
    clients |->
      [name |-> "normalize_text", client_code |-> "normalize_text",
       document |-> "normalize_cnpj", status |-> "normalize_text",
       contract |-> "normalize_text", address |-> "normalize_text"],
    sites |->
      [site_code |-> "normalize_text", name |-> "normalize_text",
       customer_account_cnpj |-> "normalize_cnpj", customer_account_name |-> "normalize_text",
       status |-> "normalize_text", address |-> "normalize_text"],
    assets |->
      [tag |-> "normalize_text", name |-> "normalize_text", asset_type |-> "normalize_text",
       status |-> "normalize_text", client_cnpj |-> "normalize_cnpj",
       client_code |-> "normalize_text", site_code |-> "normalize_text"],
    os_types |->
      [name |-> "normalize_text", description |-> "normalize_text",
       client_cnpj |-> "normalize_cnpj", client_code |-> "normalize_text",
       is_active |-> "normalize_bool"],
    questionnaires |->
      [title |-> "normalize_text", version |-> "normalize_int",
       question_text |-> "normalize_text", required |-> "normalize_bool",
       answer_type |-> "normalize_text", items |-> "normalize_list"] ]

RECURSIVE CollapseRuns(_, _, _)
\* re.sub("[" + cls + "]+", rep, s): every maximal run of characters of cls
\* becomes one rep.
CollapseRuns(s, cls, rep) ==
  IF s = <<>> THEN <<>>
  ELSE IF Head(s) \in cls
       THEN IF Len(s) > 1 /\ s[2] \in cls
            THEN CollapseRuns(Tail(s), cls, rep)
            ELSE <<rep>> \o CollapseRuns(Tail(s), cls, rep)
       ELSE <<Head(s)>> \o CollapseRuns(Tail(s), cls, rep)

\* The character class of the pattern r"[\\s\\-]+": in a raw string the two
\* backslashes are a literal backslash, so the class holds the backslash, the
\* letter s and the hyphen (and no whitespace).
HeaderRunClass == {"\\", "s", "-"}

\* A normalisation that keeps the letter case
normalize_header_cased(value) ==
  IF value = <<>> THEN <<>>
  ELSE SelectChars(CollapseRuns(Strip(value), HeaderRunClass, "_"),
                   LowerSet \cup Digits \cup {"_"})

\* normalize_header(value)
normalize_header(value) ==
  IF value = <<>> THEN <<>>
  ELSE LET nfkd == [i \in 1..Len(value) |->
                      IF value[i] \in DOMAIN AccentBase THEN AccentBase[value[i]]
                      ELSE value[i]]
           low  == Strip(Lower(nfkd))
           und  == CollapseRuns(low, HeaderRunClass, "_")
       IN  SelectChars(und, LowerSet \cup Digits \cup {"_"})

\* make_header_map(columns): normalised label and normalised key -> key.  A later
\* column overwrites an earlier one with the same normalised text.
make_header_map(columns) ==
  LET norms == {normalize_header(columns[i].label) : i \in 1..Len(columns)}
               \cup {normalize_header(columns[i].keyText) : i \in 1..Len(columns)}
      last(n) == CHOOSE i \in 1..Len(columns) :
                   /\ n \in {normalize_header(columns[i].label),
                             normalize_header(columns[i].keyText)}
                   /\ \A j \in (i + 1)..Len(columns) :
                        n \notin {normalize_header(columns[j].label),
                                  normalize_header(columns[j].keyText)}
  IN  [n \in norms |-> columns[last(n)].key]

\* make_header_map(config.template_columns), per entity
HeaderMap == [e \in Entities |-> make_header_map(template_columns[e])]

\* canonical_headers = [header_map.get(normalize_header(h), "") for h in header]
canonical_headers(entity, header) ==
  Bind(HeaderMap[entity], LAMBDA header_map :
    [i \in 1..Len(header) |->
       Bind(normalize_header(header[i]), LAMBDA h :
         IF h \in DOMAIN header_map THEN header_map[h] ELSE "")])

\* Only the first required column of the template
RequiredKeys_first(entity) ==
  Bind(template_columns[entity], LAMBDA cols :
    <<cols[CHOOSE n \in 1..Len(cols) :
             cols[n].required /\ \A m \in 1..(n - 1) : ~cols[m].required].key>>)

\* required = [c.key for c in config.template_columns if c.required]
RequiredKeys(entity) ==
  Bind(template_columns[entity], LAMBDA cols :
    SelectSeq([i \in 1..Len(cols) |-> cols[i].key],
              LAMBDA k : \E i \in 1..Len(cols) : cols[i].key = k /\ cols[i].required))

(***************************************************************************)
(* app/bulk/parser.py                                                      *)
(***************************************************************************)
InstructionKeywords ==
  << <<"o", "b", "r", "i", "g", "a", "t", "o", "r", "i", "o">>,
     <<"o", "p", "c", "i", "o", "n", "a", "l">>,
     <<"s", "e", "p", "a", "r", "a", "r">>,
     <<"s", "i", "m", "/", "n", "a", "o">>,
     <<"s", "i", "m", " ", "n", "a", "o">>,
     <<"p", "a", "d", "r", "a", "o">>,
     <<"i", "t", "e", "n", "s">> >>

\* A count of the cells that looks for the keywords in the cell as written,
\* in its own case
is_hit_cased(cell) ==
  LET raw == Strip(cell)
  IN  \/ raw = <<>>
      \/ \E k \in 1..Len(InstructionKeywords) : Contains(raw, InstructionKeywords[k])

\* The cells that _is_instruction_row counts: empty ones and those that
\* contain a keyword.
is_hit(cell) ==
  LET raw == Lower(Strip(cell))
  IN  \/ raw = <<>>
      \/ \E k \in 1..Len(InstructionKeywords) : Contains(raw, InstructionKeywords[k])

\* _is_instruction_row(row); int(len(row) * 0.6) is (6 * len) \div 10 for the
\* widths of the configured templates.
is_instruction_row(row) ==
  IF row = <<>> THEN FALSE
  ELSE LET hits == Cardinality({i \in 1..Len(row) : is_hit(row[i])})
           need == (6 * Len(row)) \div 10
       IN  hits >= (IF need > 1 THEN need ELSE 1)

StripCells(row) == [i \in 1..Len(row) |-> Strip(row[i])]

\* iter_rows(file_path): the stripped header and the stripped rows after it,
\* without the first of them when it is an instruction row.
iter_rows(file) ==
  LET body == [i \in 1..Len(file.body) |-> StripCells(file.body[i])]
  IN  [header |-> StripCells(file.header),
       rows   |-> IF body # <<>> /\ is_instruction_row(body[1]) THEN Tail(body) ELSE body]

(***************************************************************************)
(* Value transformers of app/bulk/config.py                                *)
(***************************************************************************)
RECURSIVE Split(_, _)
\* value.split(sep)
Split(s, sep) ==
  IF \E i \in 1..Len(s) : s[i] = sep
  THEN LET i == CHOOSE k \in 1..Len(s) : s[k] = sep /\ \A m \in 1..(k - 1) : s[m] # sep
       IN  <<SubSeq(s, 1, i - 1)>> \o Split(SubSeq(s, i + 1, Len(s)), sep)
  ELSE <<s>>

\* normalize_text(value)
normalize_text(value) == Strip(value)

\* normalize_email(value)
normalize_email(value) == Lower(Strip(value))

\* normalize_phone(value)
normalize_phone(value) == SelectChars(Strip(value), Digits)

\* normalize_cnpj(value)
normalize_cnpj(value) == SelectChars(Strip(value), Digits)

BoolTrueTexts == { <<"s", "i", "m">>, <<"y", "e", "s">>, <<"t", "r", "u", "e">>, <<"1">> }

\* normalize_bool(value)
normalize_bool(value) == Lower(Strip(value)) \in BoolTrueTexts

\* normalize_list(value)
normalize_list(value) ==
  LET parts == Split(value, ";")
  IN  SelectSeq([i \in 1..Len(parts) |-> Strip(parts[i])], LAMBDA p : p # <<>>)

DigitValue(c) == CHOOSE d \in 0..9 : <<"0", "1", "2", "3", "4", "5", "6", "7", "8", "9">>[d + 1] = c

RECURSIVE DigitsToNat(_)
DigitsToNat(s) ==
  IF s = <<>> THEN 0 ELSE 10 * DigitsToNat(SubSeq(s, 1, Len(s) - 1)) + DigitValue(s[Len(s)])

\* int(text) accepts the text: an optional sign and decimal digits.
IsIntLiteral(s) ==
  LET body == IF s # <<>> /\ Head(s) \in {"+", "-"} THEN Tail(s) ELSE s
  IN  body # <<>> /\ \A i \in 1..Len(body) : body[i] \in Digits

\* normalize_int(value), defined where int() does not raise
normalize_int(value) ==
  LET s == Strip(value)
  IN  IF Head(s) = "-" THEN 0 - DigitsToNat(Tail(s))
      ELSE IF Head(s) = "+" THEN DigitsToNat(Tail(s))
      ELSE DigitsToNat(s)

RECURSIVE NatToText(_)
\* str(n) of a natural number
NatToText(n) ==
  IF n < 10 THEN <<(<<"0", "1", "2", "3", "4", "5", "6", "7", "8", "9">>)[n + 1]>>
  ELSE NatToText(n \div 10) \o NatToText(n % 10)

\* str(n)
IntToText(n) == IF n < 0 THEN <<"-">> \o NatToText(0 - n) ELSE NatToText(n)

\* transformer(str(raw)): ok is FALSE when the transformer raises.
Transform(entity, key, raw) ==
  LET t == transformers[entity][key]
  IN  CASE t = "normalize_text"  -> [ok |-> TRUE, value |-> normalize_text(raw)]
        [] t = "normalize_email" -> [ok |-> TRUE, value |-> normalize_email(raw)]
        [] t = "normalize_phone" -> [ok |-> TRUE, value |-> normalize_phone(raw)]
        [] t = "normalize_cnpj"  -> [ok |-> TRUE, value |-> normalize_cnpj(raw)]
        [] t = "normalize_bool"  -> [ok |-> TRUE, value |-> normalize_bool(raw)]
        [] t = "normalize_list"  -> [ok |-> TRUE, value |-> normalize_list(raw)]
        [] t = "normalize_int"   ->
             IF IsIntLiteral(Strip(raw)) THEN [ok |-> TRUE, value |-> normalize_int(raw)]
             ELSE [ok |-> FALSE, value |-> None]

\* Keys whose parsed value is a bool or an int (all others are texts or lists).
BoolKeys == {"is_active", "required"}
IntKeys == {"version"}

\* value in (None, "")
IsNoneOrEmpty(key, value) == key \notin (BoolKeys \cup IntKeys) /\ value \in {None, <<>>}

\* row.get(key) in (None, "")
Missing(row, key) == key \notin DOMAIN row \/ IsNoneOrEmpty(key, row[key])

\* bool(row.get(key)): Python truth of the value
Truthy(row, key) ==
  /\ key \in DOMAIN row
  /\ IF key \in BoolKeys THEN row[key]
     ELSE IF key \in IntKeys THEN row[key] # 0
     ELSE row[key] \notin {None, <<>>}

\* row.get(key), for the text keys
Get(row, key) == IF key \in DOMAIN row THEN row[key] ELSE None

\* str(row.get(key))
ToText(row, key) ==
  IF key \notin DOMAIN row THEN None
  ELSE IF key \in IntKeys THEN IntToText(row[key])
  ELSE row[key]

(***************************************************************************)
(* app/bulk/importer.py: helpers                                           *)
(***************************************************************************)
MAX_PREVIEW_ROWS == 20
CHUNK_SIZE == 500

\* _append_error's entry
RowError(row_number, field, message) ==
  [row_number |-> row_number, field |-> field, message |-> message, severity |-> "error"]

\* label_for_key(config, key)
label_for_key(entity, key) ==
  Bind(template_columns[entity], LAMBDA cols :
    IF \E i \in 1..Len(cols) : cols[i].key = key
    THEN cols[CHOOSE i \in 1..Len(cols) :
                cols[i].key = key /\ \A j \in 1..(i - 1) : cols[j].key # key].label
    ELSE <<key>>)

RECURSIVE ParseCells(_, _, _, _, _, _, _)
\* The loop "for key, value in zip(canonical_headers, row)" of validate_job and
\* run_job: the parsed row and the errors of the transformers that raised.
\* The message names the column's label in validate_job (byLabel) and the key
\* in run_job.
ParseCells(entity, canon, row, idx, byLabel, i, acc) ==
  IF i > Len(canon) \/ i > Len(row) THEN acc
  ELSE LET key == canon[i]
           raw == Strip(row[i])
       IN  IF key = "" \/ raw = <<>>
           THEN ParseCells(entity, canon, row, idx, byLabel, i + 1, acc)
           ELSE LET name == IF byLabel THEN label_for_key(entity, key) ELSE <<key>>
                IN  ParseCells(entity, canon, row, idx, byLabel, i + 1,
                      Bind(Transform(entity, key, raw), LAMBDA t :
                        IF t.ok
                        THEN [acc EXCEPT !.data =
                                [k \in DOMAIN acc.data \cup {key} |->
                                   IF k = key THEN t.value ELSE acc.data[k]]]
                        ELSE [acc EXCEPT !.errors =
                                Append(acc.errors,
                                       RowError(idx, key, <<"Valor invalido para", name>>))]))

ParseRow(entity, canon, row, idx, byLabel) ==
  ParseCells(entity, canon, row, idx, byLabel, 1, [data |-> <<>>, errors |-> <<>>])

\* not any(str(cell).strip() for cell in row)
IsBlankRow(row) == \A i \in 1..Len(row) : Strip(row[i]) = <<>>

\* A unique-key group all of whose fields the row has: all(row.get(key) not in
\* (None, "") for key in group)
GroupMatches(row, group) == \A k \in 1..Len(group) : ~Missing(row, group[k])

\* _resolve_unique_key(row, unique_key_groups) is not None
has_unique_key(row, groups) == \E g \in 1..Len(groups) : GroupMatches(row, groups[g])

\* The tuple of the last group that matches
resolve_unique_key_last(row, groups) ==
  LET g == CHOOSE n \in 1..Len(groups) :
             /\ GroupMatches(row, groups[n])
             /\ \A m \in (n + 1)..Len(groups) : ~GroupMatches(row, groups[m])
  IN  [k \in 1..Len(groups[g]) |-> Strip(ToText(row, groups[g][k]))]

\* _resolve_unique_key(row, unique_key_groups), where it is not None: the tuple
\* of the first group that matches
resolve_unique_key(row, groups) ==
  LET g == CHOOSE n \in 1..Len(groups) :
             /\ GroupMatches(row, groups[n])
             /\ \A m \in 1..(n - 1) : ~GroupMatches(row, groups[m])
  IN  [k \in 1..Len(groups[g]) |-> Strip(ToText(row, groups[g][k]))]

\* _is_valid_email(value): ^[^@\s]+@[^@\s]+\.[^@\s]+$
is_valid_email(value) ==
  LET plain(a, b) == a <= b /\ \A k \in a..b : value[k] \notin (Whitespace \cup {"@"})
  IN  \E i \in 1..Len(value) : \E j \in 1..Len(value) :
        /\ value[i] = "@" /\ value[j] = "."
        /\ plain(1, i - 1) /\ plain(i + 1, j - 1) /\ plain(j + 1, Len(value))

\* _is_valid_cnpj(value)
is_valid_cnpj(value) == Len(SelectChars(value, Digits)) = 14

\* The two modes taken for each other
should_skip_swapped(mode, exists) ==
  (mode = "create_only" /\ ~exists) \/ (mode = "update_only" /\ exists)

\* _should_skip(mode, exists)
should_skip(mode, exists) ==
  \/ mode = "create_only" /\ exists
  \/ mode = "update_only" /\ ~exists

(***************************************************************************)
(* Datastore lookups of app/bulk/importer.py.  A table is the sequence of  *)
(* its rows in insertion order, a row's id is its position, and            *)
(* query.first() is the first row of the table that passes the filters;    *)
(* first() of no row is None, here the id 0.                               *)
(***************************************************************************)
RECURSIVE FirstIndex(_, _, _)
FirstIndex(table, Test(_), i) ==
  IF i > Len(table) THEN NoId
  ELSE IF Test(table[i]) THEN i ELSE FirstIndex(table, Test, i + 1)

First(table, Test(_)) == FirstIndex(table, Test, 1)

\* A lookup of the client of a row that takes the first match of any tenant
resolve_client_id_any_tenant(db, tenant_id, row) ==
  IF ~Truthy(row, "client_cnpj") /\ ~Truthy(row, "client_code") THEN NoId
  ELSE First(db.clients,
             LAMBDA c : /\ Truthy(row, "client_cnpj") => c.document = row["client_cnpj"]
                        /\ Truthy(row, "client_code") => c.client_code = row["client_code"])

\* _resolve_client_id(db, tenant_id, row_data)
resolve_client_id(db, tenant_id, row) ==
  IF ~Truthy(row, "client_cnpj") /\ ~Truthy(row, "client_code") THEN NoId
  ELSE First(db.clients,
             LAMBDA c : /\ c.tenant_id = tenant_id
                        /\ Truthy(row, "client_cnpj") => c.document = row["client_cnpj"]
                        /\ Truthy(row, "client_code") => c.client_code = row["client_code"])

\* _resolve_customer_account_id(db, tenant_id, row_data)
resolve_customer_account_id(db, tenant_id, row) ==
  First(db.customer_accounts,
        LAMBDA a : /\ a.tenant_id = tenant_id
                   /\ Truthy(row, "customer_account_cnpj")
                        => a.cnpj = row["customer_account_cnpj"]
                   /\ Truthy(row, "customer_account_name")
                        => a.name = row["customer_account_name"])

\* The query for the site with the row's site_code (validate_job, _apply_chunk)
site_by_code(db, tenant_id, row) ==
  First(db.sites, LAMBDA s : s.tenant_id = tenant_id /\ s.code = Get(row, "site_code"))

\* row_data.get("version") or 1
VersionOr1(row) == IF Truthy(row, "version") THEN row["version"] ELSE 1

\* _detect_existing(db, entity, tenant_id, row_data): the id of the record, or 0
detect_existing(db, entity, tenant_id, row) ==
  CASE entity = "employees" ->
         IF ~Truthy(row, "email") THEN NoId
         ELSE First(db.colaboradores,
                    LAMBDA r : r.tenant_id = tenant_id /\ r.email = row["email"])
    [] entity = "clients" ->
         IF Truthy(row, "document")
         THEN First(db.clients,
                    LAMBDA r : r.tenant_id = tenant_id /\ r.document = row["document"])
         ELSE IF Truthy(row, "client_code")
         THEN First(db.clients,
                    LAMBDA r : r.tenant_id = tenant_id /\ r.client_code = row["client_code"])
         ELSE NoId
    [] entity = "sites" ->
         IF ~Truthy(row, "site_code") THEN NoId
         ELSE First(db.sites,
                    LAMBDA r : r.tenant_id = tenant_id /\ r.code = row["site_code"])
    [] entity = "assets" ->
         IF ~Truthy(row, "tag") THEN NoId
         ELSE First(db.assets, LAMBDA r : r.tenant_id = tenant_id /\ r.tag = row["tag"])
    [] entity = "os_types" ->
         LET client_id == resolve_client_id(db, tenant_id, row)
         IN  First(db.os_types,
                   LAMBDA r : /\ r.tenant_id = tenant_id
                              /\ r.name = Get(row, "name")
                              /\ client_id # NoId => r.client_id = client_id)
    [] entity = "questionnaires" ->
         First(db.questionnaires,
               LAMBDA r : /\ r.tenant_id = tenant_id
                          /\ r.title = Get(row, "title")
                          /\ r.version = VersionOr1(row))
    [] OTHER -> NoId

(***************************************************************************)
(* app/bulk/importer.py: validate_job                                      *)
(***************************************************************************)
ITENS == <<"I", "T", "E", "N", "S">>

\* One error on field when cond holds (an "if cond: _append_error(...)").
ErrorIf(cond, idx, field, message) ==
  IF cond THEN <<RowError(idx, field, <<message>>)>> ELSE <<>>

\* The row after the questionnaire default: row_data["version"] = 1 when the
\* row has no version.
WithDefaults(entity, rd) ==
  IF entity = "questionnaires" /\ "version" \notin DOMAIN rd
  THEN [k \in DOMAIN rd \cup {"version"} |-> IF k = "version" THEN 1 ELSE rd[k]]
  ELSE rd

\* The checks of validate_job on one parsed, non-blank row, in the order of the
\* code: required fields, e-mail, CNPJ, identity, and the entity's own rules.
row_checks(db, job, rd, idx, seen_keys) ==
  LET entity   == job.entity
      tenant   == job.tenant_id
      required == RequiredKeys(entity)
      groups   == unique_key_groups[entity]
      rd2      == WithDefaults(entity, rd)
  IN  Bind(SelectSeq(required, LAMBDA col : Missing(rd, col)), LAMBDA absent :
        [i \in 1..Len(absent) |-> RowError(idx, absent[i], <<"Campo obrigatorio">>)])
      \o ErrorIf("email" \in DOMAIN rd /\ ~is_valid_email(rd["email"]),
                 idx, "email", "E-mail invalido")
      \o ErrorIf(Truthy(rd, "document") /\ ~is_valid_cnpj(rd["document"]),
                 idx, "document", "CNPJ invalido")
      \o ErrorIf(Truthy(rd, "customer_account_cnpj")
                   /\ ~is_valid_cnpj(rd["customer_account_cnpj"]),
                 idx, "customer_account_cnpj", "CNPJ invalido")
      \o ErrorIf(Truthy(rd, "client_cnpj") /\ ~is_valid_cnpj(rd["client_cnpj"]),
                 idx, "client_cnpj", "CNPJ invalido")
      \o ErrorIf(~has_unique_key(rd, groups), idx, "__unique__", "Chave unica nao encontrada")
      \o ErrorIf(/\ has_unique_key(rd, groups)
                 /\ entity # "questionnaires"
                 /\ resolve_unique_key(rd, groups) \in seen_keys,
                 idx, "__unique__", "Chave unica duplicada no arquivo")
      \o ErrorIf(/\ entity = "questionnaires"
                 /\ "answer_type" \in DOMAIN rd2
                 /\ Upper(rd2["answer_type"]) = ITENS
                 /\ ~Truthy(rd2, "items"),
                 idx, "items", "Itens obrigatorios quando Tipo=ITENS")
      \o ErrorIf(/\ entity = "clients"
                 /\ ~Truthy(rd, "document") /\ ~Truthy(rd, "client_code"),
                 idx, "document", "Informe CNPJ ou Codigo do cliente")
      \o ErrorIf(/\ entity = "sites"
                 /\ resolve_customer_account_id(db, tenant, rd) = NoId,
                 idx, "customer_account_cnpj", "Cliente nao encontrado pelo CNPJ")
      \o ErrorIf(/\ entity \in {"assets", "os_types"}
                 /\ Truthy(rd, "client_cnpj") \/ Truthy(rd, "client_code")
                 /\ resolve_client_id(db, tenant, rd) = NoId,
                 idx, "client_cnpj", "Cliente nao encontrado pelo CNPJ/Codigo")
      \o ErrorIf(/\ entity = "assets"
                 /\ Truthy(rd, "site_code")
                 /\ site_by_code(db, tenant, rd) = NoId,
                 idx, "site_code", "Site nao encontrado pelo codigo")

\* A set of seen keys that is never filled
seen_after_forgetful(entity, rd, seen_keys) == seen_keys

\* seen_keys after the row: the identity is added when it is new.
seen_after(entity, rd, seen_keys) ==
  IF entity # "questionnaires" /\ has_unique_key(rd, unique_key_groups[entity])
  THEN seen_keys \cup {resolve_unique_key(rd, unique_key_groups[entity])}
  ELSE seen_keys

RECURSIVE validate_rows(_, _, _, _, _, _)
\* The loop "for idx, row in enumerate(rows, start=3)" of validate_job.
validate_rows(db, job, canon, rows, i, acc) ==
  IF i > Len(rows) THEN acc
  ELSE validate_rows(db, job, canon, rows, i + 1,
         Bind(ParseRow(job.entity, canon, rows[i], i + 2, TRUE), LAMBDA parsed :
           IF IsBlankRow(rows[i])
           THEN [acc EXCEPT !.errors = acc.errors \o parsed.errors]
           ELSE Bind(parsed.errors
                       \o row_checks(db, job, parsed.data, i + 2, acc.seen_keys),
                     LAMBDA errs :
                Bind(WithDefaults(job.entity, parsed.data), LAMBDA rd2 :
                Bind(detect_existing(db, job.entity, job.tenant_id, rd2) # NoId,
                     LAMBDA exists :
                  LET skip  == should_skip(job.mode, exists)
                      clean == errs = <<>>
                  IN  [errors    |-> acc.errors \o errs,
                       seen_keys |-> seen_after(job.entity, parsed.data, acc.seen_keys),
                       skipped   |-> acc.skipped + (IF clean /\ skip THEN 1 ELSE 0),
                       updated   |-> acc.updated
                                       + (IF clean /\ ~skip /\ exists THEN 1 ELSE 0),
                       created   |-> acc.created
                                       + (IF clean /\ ~skip /\ ~exists THEN 1 ELSE 0),
                       samples   |-> IF clean /\ Len(acc.samples) < MAX_PREVIEW_ROWS
                                     THEN Append(acc.samples, rd2) ELSE acc.samples])))))

\* The required columns that are present, taken for the missing ones
missing_required_inverted(entity, canon) ==
  SelectSeq(RequiredKeys(entity), LAMBDA col : \E i \in 1..Len(canon) : canon[i] = col)

\* missing_required of validate_job
missing_required(entity, canon) ==
  SelectSeq(RequiredKeys(entity), LAMBDA col : \A i \in 1..Len(canon) : canon[i] # col)

\* The text of ImportValidationError: "Faltou a coluna " followed by the
\* upper-cased labels of the missing columns (here the labels, unjoined).
missing_message(entity, lack) ==
  [i \in 1..Len(lack) |-> Upper(label_for_key(entity, lack[i]))]

\* A report with a line for every row the reader yields, in error or not
generate_error_report_all(file, errors) ==
  LET read == iter_rows(file)
      of(idx) == SelectSeq(errors, LAMBDA e : e.row_number = idx)
      line(i) == [cells    |-> read.rows[i],
                  status   |-> "ERRO",
                  fields   |-> {of(i + 2)[k].field : k \in 1..Len(of(i + 2))} \ {""},
                  messages |-> [k \in 1..Len(of(i + 2)) |-> of(i + 2)[k].message]]
      hit == SelectSeq([i \in 1..Len(read.rows) |-> i], LAMBDA i : TRUE)
  IN  [header |-> read.header \o << <<"__status">>, <<"__error_fields">>, <<"__messages">> >>,
       rows   |-> [k \in 1..Len(hit) |-> line(hit[k])]]

\* generate_error_report: the header and, for every row the reader yields that
\* has errors, the row followed by __status, __error_fields and __messages.
generate_error_report(file, errors) ==
  LET read == iter_rows(file)
      of(idx) == SelectSeq(errors, LAMBDA e : e.row_number = idx)
      line(i) == [cells    |-> read.rows[i],
                  status   |-> "ERRO",
                  fields   |-> {of(i + 2)[k].field : k \in 1..Len(of(i + 2))} \ {""},
                  messages |-> [k \in 1..Len(of(i + 2)) |-> of(i + 2)[k].message]]
      hit == SelectSeq([i \in 1..Len(read.rows) |-> i], LAMBDA i : of(i + 2) # <<>>)
  IN  [header |-> read.header \o << <<"__status">>, <<"__error_fields">>, <<"__messages">> >>,
       rows   |-> [k \in 1..Len(hit) |-> line(hit[k])]]

\* What openpyxl.load_workbook raises on bytes that are no workbook
BadZipFile == "BadZipFile"

\* A validation that lets the exception of a transformer leave the row loop
validate_job_raising(db, job, file) ==
  IF ~file.readable
  THEN [raised |-> BadZipFile, missing |-> <<>>, errors |-> <<>>, preview |-> Null]
  ELSE
  Bind(iter_rows(file), LAMBDA read :
  Bind(canonical_headers(job.entity, read.header), LAMBDA canon :
  Bind(missing_required(job.entity, canon), LAMBDA lack :
    IF lack # <<>>
    THEN [raised |-> "ImportValidationError", missing |-> lack,
          errors |-> <<>>, preview |-> Null]
    ELSE Bind(validate_rows(db, job, canon, read.rows, 1,
                [errors |-> <<>>, seen_keys |-> {}, skipped |-> 0, updated |-> 0,
                 created |-> 0, samples |-> <<>>]),
              LAMBDA out :
           IF \E k \in 1..Len(out.errors) : out.errors[k].message[1] = "Valor invalido para"
           THEN [raised |-> "ValueError", missing |-> <<>>,
                 errors |-> <<>>, preview |-> Null]
           ELSE
           [raised |-> "", missing |-> <<>>,
            errors |-> out.errors,
            preview |-> [created |-> out.created, updated |-> out.updated,
                         skipped |-> out.skipped, errors |-> Len(out.errors),
                         samples |-> out.samples]]))))

\* validate_job(db, job) on the stored file: what it raises, or the errors and
\* the preview it computes.
validate_job(db, job, file) ==
  IF ~file.readable
  THEN [raised |-> BadZipFile, missing |-> <<>>, errors |-> <<>>, preview |-> Null]
  ELSE
  Bind(iter_rows(file), LAMBDA read :
  Bind(canonical_headers(job.entity, read.header), LAMBDA canon :
  Bind(missing_required(job.entity, canon), LAMBDA lack :
    IF lack # <<>>
    THEN [raised |-> "ImportValidationError", missing |-> lack,
          errors |-> <<>>, preview |-> Null]
    ELSE Bind(validate_rows(db, job, canon, read.rows, 1,
                [errors |-> <<>>, seen_keys |-> {}, skipped |-> 0, updated |-> 0,
                 created |-> 0, samples |-> <<>>]),
              LAMBDA out :
           [raised |-> "", missing |-> <<>>,
            errors |-> out.errors,
            preview |-> [created |-> out.created, updated |-> out.updated,
                         skipped |-> out.skipped, errors |-> Len(out.errors),
                         samples |-> out.samples]]))))

(***************************************************************************)
(* app/bulk/importer.py: run_job, _apply_chunk, _run_questionnaire_job.    *)
(* A chunk is one transaction: when a statement of the chunk raises, the   *)
(* changes of the chunk are lost and the exception leaves run_job.  The    *)
(* NOT NULL columns of app/db/models.py make the INSERT of a record with   *)
(* None in such a column raise IntegrityError.                             *)
(***************************************************************************)
ATIVO == <<"A", "T", "I", "V", "O">>
ACTIVE == <<"a", "c", "t", "i", "v", "e">>
\* None in a list position (a JSON column holding NULL).
NoneList == <<None>>

\* row.get(key, current)
GetOr(row, key, current) == IF key \in DOMAIN row THEN row[key] ELSE current

\* row.get(key) or default
GetOrDefault(row, key, default) == IF Truthy(row, key) THEN row[key] ELSE default

\* db.add(record): the record gets the next id of its table.
Insert(table, record) ==
  Append(table, [f \in DOMAIN record \cup {"id"} |->
                   IF f = "id" THEN Len(table) + 1 ELSE record[f]])

\* The outcome of one row of _apply_chunk.
Applied(db, what, raised) ==
  [db |-> db, raised |-> raised,
   created |-> IF what = "created" THEN 1 ELSE 0,
   updated |-> IF what = "updated" THEN 1 ELSE 0,
   skipped |-> IF what = "skipped" THEN 1 ELSE 0]

\* The employees branch of _apply_chunk.  The update reads existing.name, an
\* attribute the Colaborador model does not have (its column is nome), as the
\* default of row.get: every update of an employee raises AttributeError.
apply_employee(db, job, row, existing) ==
  IF existing # NoId THEN Applied(db, "none", "AttributeError")
  ELSE IF "nome" \notin DOMAIN row \/ "funcao" \notin DOMAIN row
       THEN Applied(db, "none", "IntegrityError")
       ELSE Applied(
              [db EXCEPT !.colaboradores = Insert(@,
                 [tenant_id |-> job.tenant_id,
                  nome |-> Get(row, "nome"),
                  funcao |-> Get(row, "funcao"),
                  email |-> Get(row, "email"),
                  telefone |-> Get(row, "telefone"),
                  status |-> GetOrDefault(row, "status", ATIVO),
                  contrato |-> Get(row, "contrato"),
                  unidade |-> Get(row, "unidade"),
                  coordenador_nome |-> Get(row, "coordenador_nome"),
                  supervisor_nome |-> Get(row, "supervisor_nome"),
                  especialidades |-> GetOr(row, "especialidades", NoneList),
                  observacoes |-> Get(row, "observacoes")])],
              "created", "")

\* The clients branch of _apply_chunk.
apply_client(db, job, row, existing) ==
  IF existing # NoId
  THEN Applied(
         [db EXCEPT !.clients[existing] =
            [@ EXCEPT !.name = GetOr(row, "name", @),
                      !.client_code = GetOr(row, "client_code", @),
                      !.document = GetOr(row, "document", @),
                      !.contract = GetOr(row, "contract", @),
                      !.address = GetOr(row, "address", @),
                      !.status = GetOr(row, "status", @)]],
         "updated", "")
  ELSE IF "name" \notin DOMAIN row THEN Applied(db, "none", "IntegrityError")
  ELSE Applied(
         [db EXCEPT !.clients = Insert(@,
            [tenant_id |-> job.tenant_id,
             name |-> Get(row, "name"),
             client_code |-> Get(row, "client_code"),
             document |-> Get(row, "document"),
             contract |-> Get(row, "contract"),
             address |-> Get(row, "address"),
             status |-> GetOrDefault(row, "status", ACTIVE)])],
         "created", "")

\* The sites branch of _apply_chunk.
apply_site(db, job, row, existing) ==
  LET account_id == resolve_customer_account_id(db, job.tenant_id, row)
  IN  IF existing # NoId
      THEN Applied(
             [db EXCEPT !.sites[existing] =
                [@ EXCEPT !.name = GetOr(row, "name", @),
                          !.status = GetOr(row, "status", @),
                          !.address = GetOr(row, "address", @),
                          !.customer_account_id =
                             IF account_id # NoId THEN account_id ELSE @]],
             "updated", "")
      ELSE IF "name" \notin DOMAIN row THEN Applied(db, "none", "IntegrityError")
      ELSE Applied(
             [db EXCEPT !.sites = Insert(@,
                [tenant_id |-> job.tenant_id,
                 code |-> Get(row, "site_code"),
                 name |-> Get(row, "name"),
                 status |-> GetOrDefault(row, "status", ATIVO),
                 address |-> Get(row, "address"),
                 customer_account_id |-> account_id])],
             "created", "")

\* The assets branch of _apply_chunk.
apply_asset(db, job, row, existing) ==
  LET client_id == resolve_client_id(db, job.tenant_id, row)
      site == IF Truthy(row, "site_code") THEN site_by_code(db, job.tenant_id, row)
              ELSE NoId
  IN  IF existing # NoId
      THEN Applied(
             [db EXCEPT !.assets[existing] =
                [@ EXCEPT !.name = GetOr(row, "name", @),
                          !.asset_type = GetOr(row, "asset_type", @),
                          !.status = GetOr(row, "status", @),
                          !.client_id = IF client_id # NoId THEN client_id ELSE @,
                          !.site_id = IF site # NoId THEN site ELSE @]],
             "updated", "")
      ELSE IF "tag" \notin DOMAIN row \/ "name" \notin DOMAIN row
      THEN Applied(db, "none", "IntegrityError")
      ELSE Applied(
             [db EXCEPT !.assets = Insert(@,
                [tenant_id |-> job.tenant_id,
                 tag |-> Get(row, "tag"),
                 name |-> Get(row, "name"),
                 asset_type |-> Get(row, "asset_type"),
                 status |-> Get(row, "status"),
                 client_id |-> client_id,
                 site_id |-> site])],
             "created", "")

\* The os_types branch of _apply_chunk.
apply_os_type(db, job, row, existing) ==
  LET client_id == resolve_client_id(db, job.tenant_id, row)
  IN  IF existing # NoId
      THEN Applied(
             [db EXCEPT !.os_types[existing] =
                [@ EXCEPT !.description = GetOr(row, "description", @),
                          !.is_active = GetOr(row, "is_active", @),
                          !.client_id = IF client_id # NoId THEN client_id ELSE @]],
             "updated", "")
      ELSE IF "name" \notin DOMAIN row THEN Applied(db, "none", "IntegrityError")
      ELSE Applied(
             [db EXCEPT !.os_types = Insert(@,
                [tenant_id |-> job.tenant_id,
                 name |-> Get(row, "name"),
                 description |-> Get(row, "description"),
                 is_active |-> GetOr(row, "is_active", TRUE),
                 client_id |-> client_id])],
             "created", "")

\* One iteration of "for row in rows" of _apply_chunk.
apply_row(db, job, row) ==
  Bind(detect_existing(db, job.entity, job.tenant_id, row), LAMBDA existing :
    IF should_skip(job.mode, existing # NoId) THEN Applied(db, "skipped", "")
    ELSE CASE job.entity = "employees" -> apply_employee(db, job, row, existing)
           [] job.entity = "clients"   -> apply_client(db, job, row, existing)
           [] job.entity = "sites"     -> apply_site(db, job, row, existing)
           [] job.entity = "assets"    -> apply_asset(db, job, row, existing)
           [] job.entity = "os_types"  -> apply_os_type(db, job, row, existing)
           [] OTHER                    -> Applied(db, "skipped", ""))

RECURSIVE apply_rows(_, _, _, _)
apply_rows(job, rows, i, acc) ==
  IF i > Len(rows) \/ acc.raised # "" THEN acc
  ELSE apply_rows(job, rows, i + 1,
         Bind(apply_row(acc.db, job, rows[i]), LAMBDA r :
           [db |-> r.db, raised |-> r.raised,
            created |-> acc.created + r.created,
            updated |-> acc.updated + r.updated,
            skipped |-> acc.skipped + r.skipped]))

\* _apply_chunk(db, job, rows): the rows in order, then db.commit().  When a row
\* raises, the datastore stays as it was before the chunk.
apply_chunk(db, job, rows) ==
  Bind(apply_rows(job, rows, 1,
                  [db |-> db, raised |-> "", created |-> 0, updated |-> 0, skipped |-> 0]),
       LAMBDA r :
         IF r.raised # ""
         THEN [db |-> db, raised |-> r.raised, created |-> 0, updated |-> 0, skipped |-> 0]
         ELSE r)

RECURSIVE apply_chunks(_, _, _)
\* The chunks of run_job's buffer, CHUNK_SIZE rows each, applied in order.
apply_chunks(job, rows, acc) ==
  IF rows = <<>> \/ acc.raised # "" THEN acc
  ELSE LET n == IF Len(rows) < CHUNK_SIZE THEN Len(rows) ELSE CHUNK_SIZE
       IN  apply_chunks(job, SubSeq(rows, n + 1, Len(rows)),
             Bind(apply_chunk(acc.db, job, SubSeq(rows, 1, n)), LAMBDA r :
               [db |-> r.db, raised |-> r.raised,
                created |-> acc.created + r.created,
                updated |-> acc.updated + r.updated,
                skipped |-> acc.skipped + r.skipped]))

RECURSIVE parse_buffer(_, _, _, _, _)
\* The loop "for idx, row in enumerate(rows, start=3)" of run_job: the parsed
\* non-blank rows in file order, and the errors of the transformers.
parse_buffer(entity, canon, rows, i, acc) ==
  IF i > Len(rows) THEN acc
  ELSE parse_buffer(entity, canon, rows, i + 1,
         Bind(ParseRow(entity, canon, rows[i], i + 2, FALSE), LAMBDA parsed :
           [errors |-> acc.errors \o parsed.errors,
            buffer |-> IF IsBlankRow(rows[i]) THEN acc.buffer
                       ELSE Append(acc.buffer, parsed.data)]))

\* summary_json as run_job and _run_questionnaire_job write it
Summary(created, updated, skipped, errors_count) ==
  [created |-> created, updated |-> updated, skipped |-> skipped,
   errors_count |-> errors_count, warnings_count |-> 0]

\* What a call of run_job leaves behind: the datastore, the job row and the
\* exception that left the call ("" when it returned).
Ran(db, job, raised) == [db |-> db, job |-> job, raised |-> raised]

\* The (title, version) of a parsed questionnaire row
GroupKey(row) == [title |-> row["title"], version |-> VersionOr1(row)]

RECURSIVE group_keys(_, _, _)
\* The keys of "grouped" in insertion order: rows without a title are dropped.
group_keys(buffer, i, acc) ==
  IF i > Len(buffer) THEN acc
  ELSE IF ~Truthy(buffer[i], "title") THEN group_keys(buffer, i + 1, acc)
  ELSE IF \E k \in 1..Len(acc) : acc[k] = GroupKey(buffer[i])
       THEN group_keys(buffer, i + 1, acc)
       ELSE group_keys(buffer, i + 1, Append(acc, GroupKey(buffer[i])))

\* grouped[(title, version)]
group_items(buffer, key) ==
  SelectSeq(buffer, LAMBDA row : Truthy(row, "title") /\ GroupKey(row) = key)

\* An iteration that adds the rows of the group to the items the questionnaire
\* has
apply_group_keeping(db, job, key, items) ==
  LET found == First(db.questionnaires,
                     LAMBDA q : /\ q.tenant_id = job.tenant_id
                                /\ q.title = key.title
                                /\ q.version = key.version)
      db1 == IF found # NoId THEN db
             ELSE [db EXCEPT !.questionnaires = Insert(@,
                     [tenant_id |-> job.tenant_id, title |-> key.title,
                      version |-> key.version, status |-> ATIVO])]
      qid == IF found # NoId THEN found ELSE Len(db.questionnaires) + 1
      kept == db1.questionnaire_items
      new == [i \in 1..Len(items) |->
                [questionnaire_id |-> qid,
                 question_text |-> Get(items[i], "question_text"),
                 required |-> Truthy(items[i], "required"),
                 answer_type |-> Get(items[i], "answer_type"),
                 items |-> GetOrDefault(items[i], "items", <<>>),
                 order_index |-> i - 1]]
  IN  IF found # NoId /\ job.mode = "create_only" THEN Applied(db, "skipped", "")
      ELSE IF found = NoId /\ job.mode = "update_only" THEN Applied(db, "skipped", "")
      ELSE IF \E i \in 1..Len(new) :
                new[i].question_text = None \/ new[i].answer_type = None
      THEN Applied(db, "none", "IntegrityError")
      ELSE Applied([db1 EXCEPT !.questionnaire_items = kept \o new],
                   IF found # NoId THEN "updated" ELSE "created", "")

\* One iteration of "for (title, version), items in grouped.items()" with its
\* db.commit(): the questionnaire is looked up, skipped by mode, or created, and
\* its items are replaced by the rows of the group.
apply_group(db, job, key, items) ==
  LET found == First(db.questionnaires,
                     LAMBDA q : /\ q.tenant_id = job.tenant_id
                                /\ q.title = key.title
                                /\ q.version = key.version)
      db1 == IF found # NoId THEN db
             ELSE [db EXCEPT !.questionnaires = Insert(@,
                     [tenant_id |-> job.tenant_id, title |-> key.title,
                      version |-> key.version, status |-> ATIVO])]
      qid == IF found # NoId THEN found ELSE Len(db.questionnaires) + 1
      kept == SelectSeq(db1.questionnaire_items, LAMBDA it : it.questionnaire_id # qid)
      new == [i \in 1..Len(items) |->
                [questionnaire_id |-> qid,
                 question_text |-> Get(items[i], "question_text"),
                 required |-> Truthy(items[i], "required"),
                 answer_type |-> Get(items[i], "answer_type"),
                 items |-> GetOrDefault(items[i], "items", <<>>),
                 order_index |-> i - 1]]
  IN  IF found # NoId /\ job.mode = "create_only" THEN Applied(db, "skipped", "")
      ELSE IF found = NoId /\ job.mode = "update_only" THEN Applied(db, "skipped", "")
      ELSE IF \E i \in 1..Len(new) :
                new[i].question_text = None \/ new[i].answer_type = None
      THEN Applied(db, "none", "IntegrityError")
      ELSE Applied([db1 EXCEPT !.questionnaire_items = kept \o new],
                   IF found # NoId THEN "updated" ELSE "created", "")

RECURSIVE apply_groups(_, _, _, _, _)
apply_groups(job, buffer, keys, i, acc) ==
  IF i > Len(keys) \/ acc.raised # "" THEN acc
  ELSE apply_groups(job, buffer, keys, i + 1,
         Bind(apply_group(acc.db, job, keys[i], group_items(buffer, keys[i])), LAMBDA r :
           [db |-> r.db, raised |-> r.raised,
            created |-> acc.created + r.created,
            updated |-> acc.updated + r.updated,
            skipped |-> acc.skipped + r.skipped]))

\* _run_questionnaire_job(db, job).  The transformers run outside any try: a
\* cell that int() rejects raises ValueError before the job row is touched.
run_questionnaire_job(db, job, file) ==
  IF ~file.readable THEN Ran(db, job, BadZipFile)
  ELSE
  Bind(iter_rows(file), LAMBDA read :
  Bind(parse_buffer(job.entity, canonical_headers(job.entity, read.header), read.rows, 1,
                    [errors |-> <<>>, buffer |-> <<>>]),
       LAMBDA parsed :
    IF parsed.errors # <<>> THEN Ran(db, job, "ValueError")
    ELSE Bind(apply_groups(job, parsed.buffer, group_keys(parsed.buffer, 1, <<>>), 1,
                [db |-> db, raised |-> "", created |-> 0, updated |-> 0, skipped |-> 0]),
              LAMBDA r :
           IF r.raised # ""
           THEN Ran(r.db, [job EXCEPT !.status = "running", !.started = TRUE], r.raised)
           ELSE Ran(r.db,
                    [job EXCEPT !.status = "completed", !.started = TRUE,
                                !.finished = TRUE,
                                !.summary_json =
                                   Summary(r.created, r.updated, r.skipped, 0)],
                    ""))))

\* run_job(db, job)
run_job(db, job, file) ==
  IF job.entity = "questionnaires" THEN run_questionnaire_job(db, job, file)
  ELSE IF job.status \notin {"queued", "running"} THEN Ran(db, job, "")
  ELSE IF ~file.readable THEN Ran(db, job, BadZipFile)
  ELSE Bind(iter_rows(file), LAMBDA read :
       Bind(parse_buffer(job.entity, canonical_headers(job.entity, read.header),
                         read.rows, 1, [errors |-> <<>>, buffer |-> <<>>]),
            LAMBDA parsed :
       Bind(apply_chunks(job, parsed.buffer,
                         [db |-> db, raised |-> "", created |-> 0, updated |-> 0,
                          skipped |-> 0]),
            LAMBDA r :
         IF r.raised # ""
         THEN Ran(r.db, [job EXCEPT !.status = "running", !.started = TRUE], r.raised)
         ELSE Ran(r.db,
                  [job EXCEPT !.status = "completed", !.started = TRUE,
                              !.finished = TRUE,
                              !.summary_json = Summary(r.created, r.updated, r.skipped,
                                                       Len(parsed.errors))],
                  ""))))

\* The buffer of run_job: the parsed non-blank rows of the file
ParsedBuffer(job, file) ==
  Bind(iter_rows(file), LAMBDA read :
    parse_buffer(job.entity, canonical_headers(job.entity, read.header), read.rows, 1,
                 [errors |-> <<>>, buffer |-> <<>>]).buffer)

\* The number of db.commit() that a run of the job makes between the commit of
\* status 'running' and the commit of status 'completed': one per chunk of
\* CHUNK_SIZE buffered rows, for questionnaires one per (title, version) group.
chunk_commits(job, file) ==
  Bind(iter_rows(file), LAMBDA read :
  Bind(parse_buffer(job.entity, canonical_headers(job.entity, read.header), read.rows, 1,
                    [errors |-> <<>>, buffer |-> <<>>]),
       LAMBDA parsed :
    IF job.entity = "questionnaires" THEN Len(group_keys(parsed.buffer, 1, <<>>))
    ELSE (Len(parsed.buffer) + CHUNK_SIZE - 1) \div CHUNK_SIZE))

\* run_job(db, job) in a process that ends, without running any handler, right
\* after its k-th commit of a chunk (group): what the database holds then.
killed_run(db, job, file, k) ==
  Bind(iter_rows(file), LAMBDA read :
  Bind(parse_buffer(job.entity, canonical_headers(job.entity, read.header), read.rows, 1,
                    [errors |-> <<>>, buffer |-> <<>>]),
       LAMBDA parsed :
    IF job.entity = "questionnaires" /\ parsed.errors # <<>> THEN Ran(db, job, "ValueError")
    ELSE
    Bind(IF job.entity = "questionnaires"
         THEN apply_groups(job, parsed.buffer,
                           SubSeq(group_keys(parsed.buffer, 1, <<>>), 1, k), 1,
                           [db |-> db, raised |-> "", created |-> 0, updated |-> 0,
                            skipped |-> 0])
         ELSE apply_chunks(job,
                           SubSeq(parsed.buffer, 1,
                                  IF k * CHUNK_SIZE < Len(parsed.buffer)
                                  THEN k * CHUNK_SIZE ELSE Len(parsed.buffer)),
                           [db |-> db, raised |-> "", created |-> 0, updated |-> 0,
                            skipped |-> 0]),
         LAMBDA r :
      Ran(r.db, [job EXCEPT !.status = "running", !.started = TRUE], r.raised))))

(***************************************************************************)
(* app/bulk/templates.py: build_export.  A workbook cell that was written  *)
(* as None or "" is read back as the empty text, a number as its decimal   *)
(* text.                                                                   *)
(***************************************************************************)
BULK_EXPORT_SYNC_LIMIT == 2000

SIM == <<"S", "I", "M">>
NAO == <<"N", "A", "O">>

\* A text attribute written to a cell
Cell(value) == IF value = None THEN <<>> ELSE value

\* "SIM" if flag else "NAO"
SimNao(flag) == IF flag THEN SIM ELSE NAO

RECURSIVE JoinTexts(_)
\* ";".join(list)
JoinTexts(list) ==
  IF list = <<>> THEN <<>>
  ELSE IF Len(list) = 1 THEN list[1]
  ELSE list[1] \o <<";">> \o JoinTexts(Tail(list))

\* ";".join(value or []) of a JSON list column
JoinOrEmpty(value) == IF value = NoneList THEN <<>> ELSE JoinTexts(value)

\* .filter(tenant_id == tenant_id).order_by(created_at.desc()).all(): the
\* records of the tenant, the last inserted first
NewestFirst(table, tenant_id) ==
  Bind(SelectSeq(table, LAMBDA r : r.tenant_id = tenant_id), LAMBDA mine :
    [i \in 1..Len(mine) |-> mine[Len(mine) + 1 - i]])

RECURSIVE JoinedItems(_, _)
\* The rows of the join of the questionnaires with their items, in the order of
\* the questionnaires
JoinedItems(questionnaires, q_items) ==
  IF questionnaires = <<>> THEN <<>>
  ELSE SelectSeq(q_items, LAMBDA it : it.questionnaire_id = Head(questionnaires).id)
       \o JoinedItems(Tail(questionnaires), q_items)

\* The attribute of the outer-joined record, None when the key is NULL
Joined(table, id, attr) == IF id = NoId THEN None ELSE table[id][attr]

\* The rows that build_export appends under the header, per entity
export_rows(db, tenant_id, entity) ==
  CASE entity = "employees" ->
         Bind(NewestFirst(db.colaboradores, tenant_id), LAMBDA items :
           [i \in 1..Len(items) |->
              <<Cell(items[i].nome), Cell(items[i].funcao), Cell(items[i].email),
                Cell(items[i].telefone), Cell(items[i].status), Cell(items[i].contrato),
                Cell(items[i].unidade), Cell(items[i].coordenador_nome),
                Cell(items[i].supervisor_nome), JoinOrEmpty(items[i].especialidades),
                Cell(items[i].observacoes)>>])
    [] entity = "clients" ->
         Bind(NewestFirst(db.clients, tenant_id), LAMBDA items :
           [i \in 1..Len(items) |->
              <<Cell(items[i].name), Cell(items[i].client_code), Cell(items[i].document),
                Cell(items[i].status), Cell(items[i].contract), Cell(items[i].address)>>])
    [] entity = "sites" ->
         Bind(NewestFirst(db.sites, tenant_id), LAMBDA items :
           [i \in 1..Len(items) |->
              <<Cell(items[i].code), Cell(items[i].name),
                Cell(Joined(db.customer_accounts, items[i].customer_account_id, "cnpj")),
                Cell(Joined(db.customer_accounts, items[i].customer_account_id, "name")),
                Cell(items[i].status), Cell(items[i].address)>>])
    [] entity = "assets" ->
         Bind(NewestFirst(db.assets, tenant_id), LAMBDA items :
           [i \in 1..Len(items) |->
              <<Cell(items[i].tag), Cell(items[i].name), Cell(items[i].asset_type),
                Cell(items[i].status),
                Cell(Joined(db.clients, items[i].client_id, "document")),
                Cell(Joined(db.clients, items[i].client_id, "client_code")),
                Cell(Joined(db.sites, items[i].site_id, "code"))>>])
    [] entity = "os_types" ->
         Bind(NewestFirst(db.os_types, tenant_id), LAMBDA items :
           [i \in 1..Len(items) |->
              <<Cell(items[i].name), Cell(items[i].description),
                Cell(Joined(db.clients, items[i].client_id, "document")),
                Cell(Joined(db.clients, items[i].client_id, "client_code")),
                SimNao(items[i].is_active)>>])
    [] entity = "questionnaires" ->
         Bind(JoinedItems(NewestFirst(db.questionnaires, tenant_id), db.questionnaire_items),
              LAMBDA q_items :
           [i \in 1..Len(q_items) |->
              <<Cell(db.questionnaires[q_items[i].questionnaire_id].title),
                IntToText(db.questionnaires[q_items[i].questionnaire_id].version),
                Cell(q_items[i].question_text), SimNao(q_items[i].required),
                Cell(q_items[i].answer_type), JoinTexts(q_items[i].items)>>])

\* build_export(db, tenant_id, entity): the workbook, its first row the labels
\* of the template columns, and its name (the time stamp left out).
build_export(db, tenant_id, entity) ==
  [name   |-> "export.xlsx",
   header |-> [i \in 1..Len(template_columns[entity]) |-> template_columns[entity][i].label],
   body   |-> export_rows(db, tenant_id, entity),
   salt   |-> 0, readable |-> TRUE]

\* count_records(db, tenant_id, entity)
count_records(db, tenant_id, entity) ==
  CASE entity = "employees" -> Len(NewestFirst(db.colaboradores, tenant_id))
    [] entity = "clients"   -> Len(NewestFirst(db.clients, tenant_id))
    [] entity = "sites"     -> Len(NewestFirst(db.sites, tenant_id))
    [] entity = "assets"    -> Len(NewestFirst(db.assets, tenant_id))
    [] entity = "os_types"  -> Len(NewestFirst(db.os_types, tenant_id))
    [] entity = "questionnaires" -> Len(NewestFirst(db.questionnaires, tenant_id))

(***************************************************************************)
(* The workloads: the files a user of tenant t1 submits, and the records   *)
(* that the datastore holds before.                                        *)
(***************************************************************************)
\* A CNPJ (14 digits)
D1 == <<"1", "1", "2", "2", "2", "3", "3", "3", "0", "0", "0", "1", "4", "4">>
\* The same CNPJ with its punctuation
D1_FORMATTED == <<"1", "1", ".", "2", "2", "2", ".", "3", "3", "3", "/", "0", "0", "0", "1", "-", "4", "4">>
\* Another CNPJ
D2 == <<"5", "5", "6", "6", "6", "7", "7", "7", "0", "0", "0", "1", "8", "8">>

\* The header row of the files of each entity: labels of its template.
FileHeader ==
  [ employees |-> <<
        <<"N", "o", "m", "e">>,
        <<"F", "u", "n", "c", "a", "o">>,
        <<"E", "m", "a", "i", "l">> >>,
    clients |-> <<
        <<"N", "o", "m", "e">>,
        <<"C", "N", "P", "J">>,
        <<"C", "o", "d", "i", "g", "o", " ", "d", "o", " ", "c", "l", "i", "e", "n", "t", "e">> >>,
    sites |-> <<
        <<"C", "o", "d", "i", "g", "o", " ", "d", "o", " ", "s", "i", "t", "e">>,
        <<"N", "o", "m", "e">>,
        <<"C", "N", "P", "J", " ", "d", "o", " ", "c", "l", "i", "e", "n", "t", "e">>,
        <<"N", "o", "m", "e", " ", "d", "o", " ", "c", "l", "i", "e", "n", "t", "e">> >>,
    assets |-> <<
        <<"T", "a", "g">>,
        <<"N", "o", "m", "e">>,
        <<"C", "N", "P", "J", " ", "d", "o", " ", "c", "l", "i", "e", "n", "t", "e">>,
        <<"C", "o", "d", "i", "g", "o", " ", "d", "o", " ", "c", "l", "i", "e", "n", "t", "e">>,
        <<"C", "o", "d", "i", "g", "o", " ", "d", "o", " ", "s", "i", "t", "e">> >>,
    os_types |-> <<
        <<"N", "o", "m", "e">>,
        <<"C", "N", "P", "J", " ", "d", "o", " ", "c", "l", "i", "e", "n", "t", "e">>,
        <<"C", "o", "d", "i", "g", "o", " ", "d", "o", " ", "c", "l", "i", "e", "n", "t", "e">> >>,
    questionnaires |-> <<
        <<"T", "i", "t", "u", "l", "o", " ", "d", "o", " ", "q", "u", "e", "s", "t", "i", "o", "n", "a", "r", "i", "o">>,
        <<"V", "e", "r", "s", "a", "o">>,
        <<"P", "e", "r", "g", "u", "n", "t", "a">>,
        <<"T", "i", "p", "o", " ", "d", "e", " ", "r", "e", "s", "p", "o", "s", "t", "a">>,
        <<"I", "t", "e", "n", "s", " ", "d", "a", " ", "p", "e", "r", "g", "u", "n", "t", "a">> >> ]

\* The required column that the files with an incomplete header lack.
DroppedColumn ==
  [ employees |-> 2, clients |-> 1, sites |-> 2, assets |-> 2, os_types |-> 1, questionnaires |-> 3 ]

\* The data rows a file is made of, per entity, cell by cell under FileHeader.
FileRows ==
  [ employees |-> {
        << <<"A", "n", "n">>, <<"T", "e", "c">>, <<"a", "@", "x", ".", "c", "o">> >>,
        << <<"B", "i", "a">>, <<"T", "e", "c">>, <<" ", "B", "@", "X", ".", "c", "o", " ">> >>,
        << <<"A", "n", "a">>, <<>>, <<"a", "@", "x", ".", "c", "o">> >>,
        << <<>>, <<>>, <<>> >>,
        << <<"B", "i", "a">>, <<"T", "e", "c">>, <<"b", "i", "a", ".", "x", ".", "c", "o">> >> },
    clients |-> {
        << <<"Z", "e", "d">>, <<>>, <<"C", "1">> >>,
        << <<"Z", "e", "d">>, D1_FORMATTED, <<"C", "9">> >>,
        << <<"Z", "e", "d">>, <<"1", "2", "3">>, <<>> >>,
        << <<"Z", "e", "d">>, D2, <<>> >>,
        << <<>>, <<>>, <<>> >> },
    sites |-> {
        << <<"S", "1">>, <<"M", "a", "i", "n">>, D1, <<>> >>,
        << <<"S", "9">>, <<"N", "e", "w">>, D1_FORMATTED, <<"A", "c", "m", "e">> >>,
        << <<"S", "9">>, <<"N", "e", "w">>, D2, <<>> >>,
        << <<"S", "8">>, <<"N", "e", "w">>, <<>>, <<"N", "o", "p", "e">> >>,
        << <<"S", "8">>, <<>>, <<>>, <<>> >>,
        << <<"S", "7">>, <<"N", "e", "w">>, <<"n", "/", "a">>, <<>> >> },
    assets |-> {
        << <<"T", "1">>, <<"P", "u", "m", "p">>, D1, <<>>, <<"S", "1">> >>,
        << <<"T", "2">>, <<"F", "a", "n">>, <<>>, <<"C", "9">>, <<>> >>,
        << <<"T", "2">>, <<"F", "a", "n">>, <<>>, <<>>, <<"S", "9">> >>,
        << <<"T", "3">>, <<"F", "a", "n">>, <<>>, <<>>, <<>> >>,
        << <<"T", "3">>, <<>>, D2, <<>>, <<>> >> },
    os_types |-> {
        << <<"P", "r", "e", "v">>, <<>>, <<>> >>,
        << <<"C", "o", "r", "r">>, D1, <<>> >>,
        << <<"C", "o", "r", "r">>, <<>>, <<"C", "9">> >>,
        << <<"C", "o", "r", "r">>, D2, <<>> >>,
        << <<>>, <<>>, <<"C", "1">> >> },
    questionnaires |-> {
        << <<"Q", "1">>, <<"1">>, <<"P", "1">>, <<"T", "E", "X", "T", "O">>, <<>> >>,
        << <<"Q", "1">>, <<"1">>, <<"P", "2">>, <<"I", "T", "E", "N", "S">>, <<"a", ";", " ", "b">> >>,
        << <<"Q", "2">>, <<"1">>, <<"P", "1">>, <<"i", "t", "e", "n", "s">>, <<>> >>,
        << <<"Q", "2">>, <<>>, <<"P", "1">>, <<"T", "E", "X", "T", "O">>, <<>> >>,
        << <<"Q", "2">>, <<"x">>, <<"P", "1">>, <<"T", "E", "X", "T", "O">>, <<>> >> } ]

\* seq without its k-th element
Without(seq, k) == SubSeq(seq, 1, k - 1) \o SubSeq(seq, k + 1, Len(seq))

\* The second row of an uploaded file: one empty cell per column, as the files
\* of tests/test_bulk_import.py have it.  The reader takes it for an instruction
\* row (an empty cell counts as a hit) and drops it, so the first data row is
\* row 3.
EmptyRow(width) == [i \in 1..width |-> <<>>]

\* The sequences of at most MaxRows data rows of an entity
Bodies(entity) == UNION {[1..n -> FileRows[entity]] : n \in 0..MaxRows}

\* An uploaded file: its name, its header row, the rows after the header, and
\* salt, which stands for the bytes of the file that are no cell (two files
\* with the same cells and different salt have different hashes).  The bytes
\* of a readable file are a workbook.
File(header, rows, salt) ==
  [name |-> "import.xlsx", header |-> header,
   body |-> <<EmptyRow(Len(header))>> \o rows, salt |-> salt, readable |-> TRUE]

\* A file named .xlsx whose bytes are no workbook: openpyxl.load_workbook raises
\* on it.
Garbage ==
  [name |-> "import.xlsx", header |-> <<>>, body |-> <<>>, salt |-> 0, readable |-> FALSE]

\* The files with the complete header, and those that lack a required column.
FilesOf(entity) ==
  {File(FileHeader[entity], rows, 0) : rows \in Bodies(entity)}
  \cup {File(Without(FileHeader[entity], DroppedColumn[entity]),
             [i \in 1..Len(rows) |-> Without(rows[i], DroppedColumn[entity])], 0) :
          rows \in {b \in Bodies(entity) : Len(b) <= MaxRowsShapeless}}

Modes == {"upsert", "create_only", "update_only"}

\* One user of tenant t1 who works on one file of one entity in one mode.
Workloads ==
  UNION {{[tenant_id |-> "t1", entity |-> e, mode |-> m, files |-> {f}] :
            m \in Modes, f \in FilesOf(e)} : e \in Entities}

\* A user who has no file and imports what the export of the entity gives.
ExportWorkloads ==
  {[tenant_id |-> "t1", entity |-> e, mode |-> m, files |-> {}] : e \in Entities, m \in Modes}

\* A user whose one file is no workbook.
GarbageWorkloads ==
  {[tenant_id |-> "t1", entity |-> e, mode |-> m, files |-> {Garbage}] :
     e \in Entities, m \in Modes}

T_Ana == <<"A", "n", "a">>
T_Tec == <<"T", "e", "c">>
T_Old == <<"O", "l", "d">>
T_Acme == <<"A", "c", "m", "e">>
T_Beta == <<"B", "e", "t", "a">>
T_Main == <<"M", "a", "i", "n">>
T_Pump == <<"P", "u", "m", "p">>
T_Prev == <<"P", "r", "e", "v">>
T_TEXTO == <<"T", "E", "X", "T", "O">>

\* The records of the datastore before the first upload: tenant t1 has one
\* record of each kind, tenant t2 holds the identifiers that t1 lacks.
SeedDB ==
  [colaboradores |-> <<
     [id |-> 1, tenant_id |-> "t1", nome |-> T_Ana, funcao |-> T_Tec,
      email |-> <<"a", "@", "x", ".", "c", "o">>, telefone |-> None, status |-> ATIVO,
      contrato |-> None, unidade |-> None, coordenador_nome |-> None,
      supervisor_nome |-> None, especialidades |-> NoneList, observacoes |-> None],
     [id |-> 2, tenant_id |-> "t2", nome |-> T_Ana, funcao |-> T_Tec,
      email |-> <<"b", "@", "x", ".", "c", "o">>, telefone |-> None, status |-> ATIVO,
      contrato |-> None, unidade |-> None, coordenador_nome |-> None,
      supervisor_nome |-> None, especialidades |-> NoneList, observacoes |-> None] >>,
   clients |-> <<
     [id |-> 1, tenant_id |-> "t1", name |-> T_Old, client_code |-> <<"C", "1">>,
      document |-> D1, contract |-> None, address |-> None, status |-> ACTIVE],
     [id |-> 2, tenant_id |-> "t2", name |-> T_Old, client_code |-> <<"C", "9">>,
      document |-> D2, contract |-> None, address |-> None, status |-> ACTIVE] >>,
   customer_accounts |-> <<
     [id |-> 1, tenant_id |-> "t1", name |-> T_Acme, cnpj |-> D1],
     [id |-> 2, tenant_id |-> "t2", name |-> T_Beta, cnpj |-> D2] >>,
   sites |-> <<
     [id |-> 1, tenant_id |-> "t1", code |-> <<"S", "1">>, name |-> T_Main,
      status |-> ATIVO, address |-> None, customer_account_id |-> 1],
     [id |-> 2, tenant_id |-> "t2", code |-> <<"S", "9">>, name |-> T_Main,
      status |-> ATIVO, address |-> None, customer_account_id |-> 2] >>,
   assets |-> <<
     [id |-> 1, tenant_id |-> "t1", tag |-> <<"T", "1">>, name |-> T_Pump,
      asset_type |-> None, status |-> None, client_id |-> 1, site_id |-> 1] >>,
   os_types |-> <<
     [id |-> 1, tenant_id |-> "t1", name |-> T_Prev, description |-> None,
      is_active |-> TRUE, client_id |-> NoId] >>,
   questionnaires |-> <<
     [id |-> 1, tenant_id |-> "t1", title |-> <<"Q", "1">>, version |-> 1,
      status |-> ATIVO] >>,
   questionnaire_items |-> <<
     [questionnaire_id |-> 1, question_text |-> <<"P", "0">>, required |-> FALSE,
      answer_type |-> T_TEXTO, items |-> <<>>, order_index |-> 0] >>]

(***************************************************************************)
(* The state.                                                              *)
(***************************************************************************)
VARIABLES
  user,               \* the workload: tenant, entity, mode and files of the user
  storage,            \* blob storage: uploaded files and error reports, by path
  import_jobs,        \* table import_jobs, a job's id is its position
  import_row_errors,  \* table import_row_errors
  db,                 \* the business tables
  hist,               \* per job: outcome of its last validation, confirmed since,
                      \* completed runs, all of them validated and confirmed
  resp                \* the last request and its response

vars == <<user, storage, import_jobs, import_row_errors, db, hist, resp>>

NoUrl == <<>>

\* dest_path of upload_import_file: bulk/imports/{tenant}/{entity}/{filename}
ImportPath(tenant_id, entity, name) == <<tenant_id, entity, name>>

\* dest of export_entity: bulk/exports/{tenant}/{entity}/{filename}
ExportPath(tenant_id, entity, name) == <<tenant_id, entity, name>>

\* dest of generate_error_report: bulk/errors/{tenant}/{job.id}.xlsx
ErrorReportPath(job) == <<job.tenant_id, job.id>>

\* hasher.hexdigest() of the uploaded bytes: equal for equal content only
FileContent(f) ==
  [header |-> f.header, body |-> f.body, salt |-> f.salt, readable |-> f.readable]

Response(op, job_id, code, raised) ==
  [op |-> op, job_id |-> job_id, code |-> code, raised |-> raised, detail |-> <<>>]

InitWith(workloads) ==
  /\ user \in workloads
  /\ storage = [imports |-> <<>>, errors |-> <<>>, exports |-> <<>>]
  /\ import_jobs = <<>>
  /\ import_row_errors = <<>>
  /\ db = SeedDB
  /\ hist = <<>>
  /\ resp = Response("none", NoId, 0, "")

Init == InitWith(Workloads \cup ExportWorkloads \cup GarbageWorkloads)

(***************************************************************************)
(* app/api/v1/bulk.py: the requests.  The user's files have an accepted    *)
(* extension and content type and are neither empty nor over the size      *)
(* limit, and the user holds the permission cadastros.importar.            *)
(***************************************************************************)
\* The statuses of an existing job with the same hash for which
\* upload_import_file answers 409.
UploadConflictStatuses == {"completed", "queued", "running", "ready_to_confirm"}

\* POST /bulk/import/{entity}/upload.  The file is written to its path before
\* the job table is looked at.  An existing job of a status that is let through
\* makes the INSERT violate uq_import_dedup (tenant, entity, file_hash).  No
\* upload arrives while a worker is between its first and its last commit: the
\* model does not say what a reader sees of a file that is being overwritten.
Upload(f) ==
  LET path == ImportPath(user.tenant_id, user.entity, f.name)
      existing == First(import_jobs,
                        LAMBDA j : /\ j.tenant_id = user.tenant_id
                                   /\ j.entity = user.entity
                                   /\ j.file_hash = FileContent(f))
      job == [id |-> Len(import_jobs) + 1, tenant_id |-> user.tenant_id,
              entity |-> user.entity, mode |-> user.mode, status |-> "queued",
              file_url |-> path, file_name |-> f.name, file_hash |-> FileContent(f),
              started |-> FALSE, finished |-> FALSE, summary_json |-> Null,
              preview_json |-> Null, error_report_url |-> NoUrl]
  IN  /\ \A j \in DOMAIN hist : ~hist[j].inflight
      /\ storage' = [storage EXCEPT !.imports = (path :> FileContent(f)) @@ @]
      /\ IF existing # NoId /\ import_jobs[existing].status \in UploadConflictStatuses
         THEN /\ resp' = Response("upload", NoId, 409, "")
              /\ UNCHANGED <<import_jobs, hist>>
         ELSE IF existing # NoId
         THEN /\ resp' = Response("upload", NoId, 500, "IntegrityError")
              /\ UNCHANGED <<import_jobs, hist>>
         ELSE /\ import_jobs' = Append(import_jobs, job)
              /\ hist' = Append(hist, [validation |-> "never", confirmed |-> FALSE,
                                       applied |-> "never", clean |-> TRUE,
                                       interrupted |-> Null, kills |-> 0,
                                       inflight |-> FALSE])
              /\ resp' = Response("upload", job.id, 200, "")
      /\ UNCHANGED <<user, import_row_errors, db>>

\* GET /bulk/export/{entity}, for a user who holds the permission
\* cadastros.exportar, where the tenant has at most BULK_EXPORT_SYNC_LIMIT
\* records: the workbook is built and stored, and the user downloads it from
\* the signed URL of the answer.
Export ==
  /\ Cardinality(user.files) < MaxFilesForExport
  /\ count_records(db, user.tenant_id, user.entity) <= BULK_EXPORT_SYNC_LIMIT
  /\ \E f \in {build_export(db, user.tenant_id, user.entity)} :
       /\ storage' = [storage EXCEPT !.exports =
                        (ExportPath(user.tenant_id, user.entity, f.name) :> FileContent(f)) @@ @]
       /\ user' = [user EXCEPT !.files = @ \cup {f}]
  /\ resp' = Response("export", NoId, 200, "")
  /\ UNCHANGED <<import_jobs, import_row_errors, db, hist>>

\* A pass that lets one error through
validated_status_lenient(errors_count) ==
  IF errors_count <= 1 THEN "ready_to_confirm" ELSE "failed"

\* job.status after a validation pass that collected errors_count errors
validated_status(errors_count) == IF errors_count = 0 THEN "ready_to_confirm" ELSE "failed"

\* The job row after validate_job returned: lines 172-186.
validated_job(job, v) ==
  [job EXCEPT !.preview_json = v.preview,
              !.summary_json = Summary(v.preview.created, v.preview.updated,
                                       v.preview.skipped, v.preview.errors),
              !.status = validated_status(v.preview.errors),
              !.error_report_url = IF v.errors # <<>> THEN ErrorReportPath(job) ELSE @]

\* models.ImportRowError(import_job_id = job.id, ...) for each collected error
RowErrorRecords(id, errors) ==
  [k \in 1..Len(errors) |->
     [import_job_id |-> id, row_number |-> errors[k].row_number,
      field |-> errors[k].field, message |-> errors[k].message,
      severity |-> errors[k].severity]]

\* A validation that keeps the row errors of the earlier passes
stored_row_errors_keeping(table, id, errors) == table \o RowErrorRecords(id, errors)

\* import_row_errors after a validation pass that ran to its end: the rows of
\* the job are deleted (line 81) and the collected errors are inserted (lines
\* 167-170).
stored_row_errors(table, id, errors) ==
  SelectSeq(table, LAMBDA e : e.import_job_id # id) \o RowErrorRecords(id, errors)

\* A validate request that applies the rows as well
Validate_applying(id) ==
  /\ \E r \in {run_job(db, [import_jobs[id] EXCEPT !.status = "queued"],
                       storage.imports[import_jobs[id].file_url])} :
       /\ db' = r.db
       /\ import_jobs' = [import_jobs EXCEPT ![id] = r.job]
       /\ resp' = Response("validate", id, IF r.raised = "" THEN 200 ELSE 500, r.raised)
  /\ hist' = [hist EXCEPT ![id].validation = "unread", ![id].confirmed = FALSE]
  /\ UNCHANGED <<user, storage, import_row_errors>>

\* POST /bulk/import/{job_id}/validate: validate_job, and the handler's except
\* branch, which sets the job to failed when ImportValidationError is raised.
\* Another exception leaves the handler after the commit of "validating".
Validate(id) ==
  LET job  == import_jobs[id]
      file == storage.imports[job.file_url]
  IN  \E v \in {validate_job(db, job, file)} :
      /\ IF v.raised = BadZipFile
         THEN /\ import_jobs' = [import_jobs EXCEPT ![id].status = "validating"]
              /\ hist' = [hist EXCEPT ![id].validation = "unread",
                                      ![id].confirmed = FALSE]
              /\ resp' = Response("validate", id, 500, v.raised)
              /\ UNCHANGED <<import_row_errors, storage>>
         ELSE IF v.raised # ""
         THEN /\ import_jobs' = [import_jobs EXCEPT ![id].status = "failed"]
              /\ hist' = [hist EXCEPT ![id].validation = "shape_error",
                                      ![id].confirmed = FALSE]
              /\ resp' = [Response("validate", id, 400, v.raised) EXCEPT
                            !.detail = missing_message(job.entity, v.missing)]
              /\ UNCHANGED <<import_row_errors, storage>>
         ELSE /\ import_row_errors' = stored_row_errors(import_row_errors, id, v.errors)
              /\ import_jobs' = [import_jobs EXCEPT ![id] = validated_job(job, v)]
              /\ storage' = IF v.errors = <<>> THEN storage
                            ELSE [storage EXCEPT !.errors =
                                    (ErrorReportPath(job) :>
                                       generate_error_report(file, v.errors)) @@ @]
              /\ hist' = [hist EXCEPT
                            ![id].validation = IF v.errors = <<>> THEN "passed" ELSE "failed",
                            ![id].confirmed = FALSE]
              /\ resp' = Response("validate", id, 200, "")
      /\ UNCHANGED <<user, db>>

\* GET /bulk/import/{job_id}: what the answer shows of the job.  The signed
\* URL of a file of the local storage is its URL.
get_import_job(job) ==
  [id |-> job.id, entity |-> job.entity, status |-> job.status,
   summary |-> job.summary_json, preview |-> job.preview_json,
   error_report_url |-> IF job.error_report_url # NoUrl THEN job.error_report_url
                        ELSE Null]

\* A check that lets a failed job through as well
confirmable_lenient(job) == job.status \in {"ready_to_confirm", "failed"}

\* The check of confirm_import on the job's status
confirmable(job) == job.status = "ready_to_confirm"

\* POST /bulk/import/{job_id}/confirm
Confirm(id) ==
  LET job == import_jobs[id]
      running == First(import_jobs,
                       LAMBDA j : /\ j.tenant_id = job.tenant_id
                                  /\ j.entity = job.entity
                                  /\ j.status \in {"queued", "running"}
                                  /\ j.id # job.id)
  IN  /\ IF ~confirmable(job)
         THEN /\ resp' = Response("confirm", id, 400, "")
              /\ UNCHANGED <<import_jobs, hist>>
         ELSE IF running # NoId
         THEN /\ resp' = Response("confirm", id, 409, "")
              /\ UNCHANGED <<import_jobs, hist>>
         ELSE /\ import_jobs' = [import_jobs EXCEPT ![id].status = "queued"]
              /\ hist' = [hist EXCEPT ![id].confirmed = TRUE]
              /\ resp' = Response("confirm", id, 200, "")
      /\ UNCHANGED <<user, storage, import_row_errors, db>>

\* Whether run_job goes past its check of the status of the job: the early
\* return of line 288 comes after the questionnaires branch of line 285.
runs(job) == job.entity = "questionnaires" \/ job.status \in {"queued", "running"}

\* POST /bulk/worker/import/{job_id}: run_job on the job of that id.  An
\* exception that leaves run_job is the answer 500; what was committed before
\* it stays.
Worker(id) ==
  LET job  == import_jobs[id]
      file == storage.imports[job.file_url]
  IN  \E r \in {run_job(db, job, file)} :
      /\ db' = r.db
      /\ import_jobs' = [import_jobs EXCEPT ![id] = r.job]
      /\ resp' = Response("worker", id, IF r.raised = "" THEN 200 ELSE 500, r.raised)
      /\ hist' = IF r.raised = "" /\ runs(job)
                 THEN [hist EXCEPT
                         ![id].applied = IF @ = "never" THEN "once" ELSE "again",
                         ![id].clean = @ /\ hist[id].validation = "passed"
                                         /\ hist[id].confirmed,
                         ![id].interrupted = Null,
                         ![id].inflight = FALSE]
                 ELSE [hist EXCEPT ![id].interrupted = Null, ![id].inflight = FALSE]
      /\ UNCHANGED <<user, storage, import_row_errors>>

\* POST /bulk/worker/import/{job_id} in a process that is killed during
\* run_job, after k of its commits of chunks: the job row says 'running', the
\* chunks committed so far stay, and the request gets no answer.  hist keeps
\* the datastore that the run started from.
WorkerKilled(id, k) ==
  LET job  == import_jobs[id]
      file == storage.imports[job.file_url]
  IN  /\ hist[id].kills < MaxKills
      /\ runs(job)
      /\ file.readable
      /\ k <= chunk_commits(job, file)
      /\ \E r \in {killed_run(db, job, file, k)} :
           /\ r.raised = ""
           /\ db' = r.db
           /\ import_jobs' = [import_jobs EXCEPT ![id] = r.job]
      /\ resp' = Response("killed", id, 0, "")
      /\ hist' = [hist EXCEPT ![id].kills = @ + 1,
                               ![id].interrupted =
                                 [db |-> db, commits |-> k,
                                  chunks |-> chunk_commits(job, file)]]
      /\ UNCHANGED <<user, storage, import_row_errors>>

Next ==
  \/ Export
  \/ \E f \in user.files : Upload(f)
  \/ \E id \in 1..Len(import_jobs) : Validate(id)
  \/ \E id \in 1..Len(import_jobs) : Confirm(id)
  \/ \E id \in 1..Len(import_jobs) : Worker(id)

Spec == Init /\ [][Next]_vars

(***************************************************************************)
(* The import requests where a worker process may be killed: users who work *)
(* on a file with the complete header.                                      *)
(***************************************************************************)
CrashWorkloads ==
  UNION {{[tenant_id |-> "t1", entity |-> e, mode |-> "upsert",
           files |-> {File(FileHeader[e], rows, 0)}] : rows \in Bodies(e)} :
          e \in Entities}

CrashInit == InitWith(CrashWorkloads)

CrashNext ==
  \/ \E f \in user.files : Upload(f)
  \/ \E id \in 1..Len(import_jobs) : Validate(id)
  \/ \E id \in 1..Len(import_jobs) : Confirm(id)
  \/ \E id \in 1..Len(import_jobs) : Worker(id)
  \/ \E id \in 1..Len(import_jobs) : \E k \in 0..MaxCommits : WorkerKilled(id, k)

CrashSpec == CrashInit /\ [][CrashNext]_vars

(***************************************************************************)
(* The import requests where worker requests overlap: a worker request is   *)
(* two steps, up to its commit of status 'running' and from there to its    *)
(* answer, and the user works on two files of one entity.                   *)
(***************************************************************************)
\* Two files of collaborators with the same one row under the complete header
\* and with different bytes (the sheet was saved twice).
PairWorkloads ==
  {[tenant_id |-> "t1", entity |-> "employees", mode |-> "upsert",
    files |-> {File(FileHeader["employees"], <<r>>, 0),
               File(FileHeader["employees"], <<r>>, 1)}] :
     r \in FileRows["employees"]}

PairInit == InitWith(PairWorkloads)

\* run_import_worker up to the db.commit() of job.status = "running" in
\* run_job (line 304) or _run_questionnaire_job (line 383), for a job that has
\* no worker yet.
WorkerStart(id) ==
  LET job  == import_jobs[id]
      file == storage.imports[job.file_url]
  IN  /\ ~hist[id].inflight
      /\ runs(job)
      /\ file.readable
      /\ \E r \in {killed_run(db, job, file, 0)} :
           /\ r.raised = ""
           /\ import_jobs' = [import_jobs EXCEPT ![id] = r.job]
      /\ hist' = [hist EXCEPT ![id].inflight = TRUE]
      /\ resp' = Response("worker_started", id, 0, "")
      /\ UNCHANGED <<user, storage, import_row_errors, db>>

\* The rest of that request: the chunks, the commit of the summary and the
\* answer.
WorkerFinish(id) == hist[id].inflight /\ Worker(id)

PairNext ==
  \/ \E f \in user.files : Upload(f)
  \/ \E id \in 1..Len(import_jobs) : Validate(id)
  \/ \E id \in 1..Len(import_jobs) : Confirm(id)
  \/ \E id \in 1..Len(import_jobs) : WorkerStart(id)
  \/ \E id \in 1..Len(import_jobs) : WorkerFinish(id)

PairSpec == PairInit /\ [][PairNext]_vars

(***************************************************************************)
(* Validation on its own: the user uploads two files of one entity under    *)
(* the same name, so that the second upload replaces the stored file of the *)
(* first job, and validates the jobs any number of times.                   *)
(***************************************************************************)
RevalidateWorkloads ==
  UNION {{[tenant_id |-> "t1", entity |-> e, mode |-> "upsert",
           files |-> {File(FileHeader[e], <<r[1]>>, 0), File(FileHeader[e], <<r[2]>>, 1)}] :
            r \in FileRows[e] \X FileRows[e]} : e \in Entities}

RevalidateInit == InitWith(RevalidateWorkloads)

RevalidateNext ==
  \/ \E f \in user.files : Upload(f)
  \/ \E id \in 1..Len(import_jobs) : Validate(id)

RevalidateSpec == RevalidateInit /\ [][RevalidateNext]_vars

(***************************************************************************)
(* The import requests on files whose first data row directly follows the   *)
(* header: the workbook has no instruction row.                             *)
(***************************************************************************)
DirectWorkloads ==
  UNION {{[tenant_id |-> "t1", entity |-> e, mode |-> "upsert",
           files |-> {[name |-> "import.xlsx", header |-> FileHeader[e], body |-> rows,
                       salt |-> 0, readable |-> TRUE]}] :
            rows \in Bodies(e) \ {<<>>}} : e \in Entities}

DirectInit == InitWith(DirectWorkloads)

DirectNext ==
  \/ \E f \in user.files : Upload(f)
  \/ \E id \in 1..Len(import_jobs) : Validate(id)
  \/ \E id \in 1..Len(import_jobs) : Confirm(id)
  \/ \E id \in 1..Len(import_jobs) : Worker(id)

DirectSpec == DirectInit /\ [][DirectNext]_vars

(***************************************************************************)
(* run_job one commit at a time: the commit of status 'running', one step   *)
(* per call of _apply_chunk with its commit, and the commit of the summary. *)
(* The loop is that of run_job with ChunkSize rows per chunk in the place   *)
(* of CHUNK_SIZE, so that files of a few rows have full chunks, chunk       *)
(* boundaries and a final partial chunk.  resp holds the position of the    *)
(* run: the index of the next buffered row, the chunks passed so far and    *)
(* the counts.                                                             *)
(***************************************************************************)
ChunkSize == 2
MaxChunkRows == 5

\* The buffer that drops what it holds when the rows end before it is full
RECURSIVE fill_buffer_full_only(_, _, _, _)
fill_buffer_full_only(size, rows, i, buffer) ==
  IF Len(buffer) >= size THEN [next |-> i, buffer |-> buffer]
  ELSE IF i > Len(rows) THEN [next |-> i, buffer |-> <<>>]
  ELSE fill_buffer_full_only(size, rows, i + 1, Append(buffer, rows[i]))

RECURSIVE fill_buffer(_, _, _, _)
\* The loop of run_job from the i-th non-blank row on, up to its next call of
\* _apply_chunk: buffer.append(row_data) until len(buffer) >= size, or until
\* the rows end ("if buffer:" after the loop).
fill_buffer(size, rows, i, buffer) ==
  IF Len(buffer) >= size \/ i > Len(rows) THEN [next |-> i, buffer |-> buffer]
  ELSE fill_buffer(size, rows, i + 1, Append(buffer, rows[i]))

\* The parsed rows of the file of a job and the errors of the transformers, as
\* the loop of run_job computes them
run_buffer(job, file) ==
  Bind(iter_rows(file), LAMBDA read :
    parse_buffer(job.entity, canonical_headers(job.entity, read.header), read.rows, 1,
                 [errors |-> <<>>, buffer |-> <<>>]))

\* Files of clients with the complete header and up to MaxChunkRows rows, in
\* upsert mode: every row of them is applied without an exception.
ChunkWorkloads ==
  {[tenant_id |-> "t1", entity |-> "clients", mode |-> "upsert",
    files |-> {File(FileHeader["clients"], rows, 0)}] :
     rows \in UNION {[1..n -> FileRows["clients"]] : n \in 0..MaxChunkRows}}

ChunkInit == InitWith(ChunkWorkloads)

\* run_job up to the db.commit() of job.status = "running" (lines 288-304)
RunStart(id) ==
  LET job  == import_jobs[id]
      file == storage.imports[job.file_url]
  IN  /\ ~hist[id].inflight
      /\ job.entity # "questionnaires"
      /\ job.status \in {"queued", "running"}
      /\ file.readable
      /\ import_jobs' = [import_jobs EXCEPT ![id].status = "running", ![id].started = TRUE]
      /\ hist' = [hist EXCEPT ![id].inflight = TRUE]
      /\ resp' = [Response("run", id, 0, "") EXCEPT
                    !.detail = [next |-> 1, passed |-> <<>>,
                                created |-> 0, updated |-> 0, skipped |-> 0]]
      /\ UNCHANGED <<user, storage, import_row_errors, db>>

\* The loop of run_job up to and including its next call of _apply_chunk, which
\* commits (lines 306-333, 616).  An exception of the chunk ends the request.
RunChunk(id) ==
  LET job  == import_jobs[id]
      file == storage.imports[job.file_url]
  IN  /\ resp.op = "run" /\ resp.job_id = id
      /\ \E rows \in {run_buffer(job, file).buffer} :
           /\ resp.detail.next <= Len(rows)
           /\ \E f \in {fill_buffer(ChunkSize, rows, resp.detail.next, <<>>)} :
              \E r \in {apply_chunk(db, job, f.buffer)} :
                /\ db' = r.db
                /\ IF r.raised # ""
                   THEN /\ resp' = Response("worker", id, 500, r.raised)
                        /\ hist' = [hist EXCEPT ![id].inflight = FALSE]
                   ELSE /\ resp' = [resp EXCEPT
                                      !.detail = [next |-> f.next,
                                                  passed |-> Append(@.passed, f.buffer),
                                                  created |-> @.created + r.created,
                                                  updated |-> @.updated + r.updated,
                                                  skipped |-> @.skipped + r.skipped]]
                        /\ UNCHANGED hist
      /\ UNCHANGED <<user, storage, import_jobs, import_row_errors>>

\* The end of run_job: the commit of status 'completed' and of the summary
\* (lines 335-351).  The answer keeps the chunks that were passed.
RunFinish(id) ==
  LET job  == import_jobs[id]
      file == storage.imports[job.file_url]
  IN  /\ resp.op = "run" /\ resp.job_id = id
      /\ \E parsed \in {run_buffer(job, file)} :
           /\ resp.detail.next > Len(parsed.buffer)
           /\ import_jobs' = [import_jobs EXCEPT
                                ![id].status = "completed", ![id].finished = TRUE,
                                ![id].summary_json =
                                   Summary(resp.detail.created, resp.detail.updated,
                                           resp.detail.skipped, Len(parsed.errors))]
      /\ hist' = [hist EXCEPT
                    ![id].applied = IF @ = "never" THEN "once" ELSE "again",
                    ![id].clean = @ /\ hist[id].validation = "passed" /\ hist[id].confirmed,
                    ![id].inflight = FALSE]
      /\ resp' = [Response("worker", id, 200, "") EXCEPT !.detail = resp.detail.passed]
      /\ UNCHANGED <<user, storage, import_row_errors, db>>

ChunkNext ==
  \/ \E f \in user.files : Upload(f)
  \/ \E id \in 1..Len(import_jobs) : RunStart(id)
  \/ \E id \in 1..Len(import_jobs) : RunChunk(id)
  \/ \E id \in 1..Len(import_jobs) : RunFinish(id)

ChunkSpec == ChunkInit /\ [][ChunkNext]_vars

(***************************************************************************)
(* Header matching on its own: files of one header cell, which is the      *)
(* label of a template column as a user may type it, and the step of       *)
(* validate_job and run_job that resolves the header to canonical keys.    *)
(***************************************************************************)
\* The letter with an accent, where the model has one
Accented(text) ==
  [i \in 1..Len(text) |->
     IF \E t \in DOMAIN AccentBase : AccentBase[t] = text[i]
     THEN CHOOSE t \in DOMAIN AccentBase : AccentBase[t] = text[i]
     ELSE text[i]]

\* The ways of typing a label that differ from it in letter case, accents or
\* spaces at its ends only
HeaderVariants(label) ==
  {label, Upper(label), Lower(label), Accented(label), Accented(Upper(label)),
   <<" ">> \o label, label \o <<" ">>, <<"\t", " ">> \o Upper(label) \o <<" ", "\n">>}

\* A user with a file whose header is one label of the template, typed in one
\* of these ways, and that has no row.
HeaderWorkloads ==
  UNION {UNION {{[tenant_id |-> "t1", entity |-> e, mode |-> "upsert", column |-> i,
                  files |-> {[name |-> "import.xlsx", header |-> <<h>>, body |-> <<>>,
                              salt |-> 0, readable |-> TRUE]}] :
                   h \in HeaderVariants(template_columns[e][i].label)} :
                 i \in DOMAIN template_columns[e]} :
          e \in Entities}

HeaderInit == InitWith(HeaderWorkloads)

\* header, rows = iter_rows(local_path); canonical_headers = [...]: the keys
\* that the header cells of the file resolve to.
ResolveHeader(f) ==
  /\ resp' = [Response("header", NoId, 0, "") EXCEPT
                !.detail = canonical_headers(user.entity, iter_rows(f).header)]
  /\ UNCHANGED <<user, storage, import_jobs, import_row_errors, db, hist>>

HeaderNext == \E f \in user.files : ResolveHeader(f)

HeaderSpec == HeaderInit /\ [][HeaderNext]_vars

(***************************************************************************)
(* Header normalisation on its own: header cells of several words, which    *)
(* are the words of a template label or key with one separator between      *)
(* them, and normalize_header applied to the cell.                          *)
(***************************************************************************)
RECURSIVE JoinWith(_, _)
\* sep.join(words)
JoinWith(words, sep) ==
  IF words = <<>> THEN <<>>
  ELSE IF Len(words) = 1 THEN words[1]
  ELSE words[1] \o sep \o JoinWith(Tail(words), sep)

\* What a user may type between two words of a header
Separators ==
  {<<" ">>, <<"-">>, <<"_">>, <<" ", " ">>, <<"-", "-">>, <<" ", "-", " ">>, <<"\t">>}

\* The words of the labels and keys of a template that have several words,
\* all of letters
WordLists(e) ==
  {w \in {Split(template_columns[e][i].label, " ") : i \in DOMAIN template_columns[e]}
          \cup {Split(template_columns[e][i].keyText, "_") : i \in DOMAIN template_columns[e]} :
     /\ Len(w) > 1
     /\ \A k \in 1..Len(w) : \A n \in 1..Len(w[k]) : LowerChar(w[k][n]) \in LowerSet}

SeparatorWorkloads ==
  UNION {UNION {{[tenant_id |-> "t1", entity |-> e, mode |-> "upsert", words |-> w,
                  files |-> {[name |-> "import.xlsx", header |-> <<JoinWith(w, sep)>>,
                              body |-> <<>>, salt |-> 0, readable |-> TRUE]}] :
                   sep \in Separators} :
                 w \in WordLists(e)} :
          e \in Entities}

SeparatorInit == InitWith(SeparatorWorkloads)

\* normalize_header(h) of a header cell of the file
NormalizeHeader(f) ==
  /\ resp' = [Response("normalize", NoId, 0, "") EXCEPT
                !.detail = normalize_header(iter_rows(f).header[1])]
  /\ UNCHANGED <<user, storage, import_jobs, import_row_errors, db, hist>>

SeparatorNext ==
  \/ \E f \in user.files : NormalizeHeader(f)
  \/ \E f \in user.files : ResolveHeader(f)

SeparatorSpec == SeparatorInit /\ [][SeparatorNext]_vars

(***************************************************************************)
(* Export jobs: GET /bulk/export/{entity} with BULK_EXPORT_SYNC_LIMIT set  *)
(* below the tenant's record count, POST /bulk/worker/export/{job_id}, and *)
(* POST /questionnaires of app/api/v1/questionnaires.py, which changes     *)
(* what an export finds.  The table export_jobs is kept with the business  *)
(* tables in db; run_export_job is two steps, one for each commit.         *)
(***************************************************************************)
\* The value of BULK_EXPORT_SYNC_LIMIT in the environment of these runs
LowSyncLimit == 0
\* At most this many export jobs are requested.
MaxExportJobs == 2
\* At most this many questionnaires are created through the API.
MaxCreated == 2

\* The titles of the payloads of POST /questionnaires
NewTitles == {<<"Q", "2">>, <<"Q", "3">>}

ExportJobWorkloads ==
  {[tenant_id |-> "t1", entity |-> e, mode |-> "upsert", files |-> {}] : e \in Entities}

ExportJobInit ==
  /\ user \in ExportJobWorkloads
  /\ storage = [imports |-> <<>>, errors |-> <<>>, exports |-> <<>>]
  /\ import_jobs = <<>>
  /\ import_row_errors = <<>>
  /\ db = SeedDB @@ [export_jobs |-> <<>>]
  /\ hist = <<>>
  /\ resp = Response("none", NoId, 0, "")

\* POST /questionnaires: create_questionnaire
create_questionnaire(title) ==
  /\ Len(db.questionnaires) < Len(SeedDB.questionnaires) + MaxCreated
  /\ db' = [db EXCEPT !.questionnaires =
              Append(@, [id |-> Len(@) + 1, tenant_id |-> user.tenant_id,
                         title |-> title, version |-> 1, status |-> ATIVO])]
  /\ resp' = Response("create_questionnaire", NoId, 201, "")
  /\ UNCHANGED <<user, storage, import_jobs, import_row_errors, hist>>

\* GET /bulk/export/{entity} where the tenant has more records than the limit:
\* the branch of export_entity that adds an ExportJob and enqueues its task.
export_entity ==
  /\ Len(db.export_jobs) < MaxExportJobs
  /\ count_records(db, user.tenant_id, user.entity) > LowSyncLimit
  /\ db' = [db EXCEPT !.export_jobs =
              Append(@, [id |-> Len(@) + 1, tenant_id |-> user.tenant_id,
                         entity |-> user.entity, status |-> "queued",
                         file_url |-> NoUrl, file_name |-> NoUrl, started |-> FALSE,
                         finished |-> FALSE, summary_json |-> Null])]
  /\ resp' = [Response("export", Len(db.export_jobs) + 1, 200, "") EXCEPT
                !.detail = "queued"]
  /\ UNCHANGED <<user, storage, import_jobs, import_row_errors, hist>>

\* The test of run_export_job on the job's status
export_startable(job) == job.status \in {"queued", "running"}

\* run_export_job up to its first commit, as called by run_export_worker or
\* _run_export_inline: a job in another status is returned as it is.
run_export_start(id) ==
  /\ IF export_startable(db.export_jobs[id])
     THEN db' = [db EXCEPT !.export_jobs[id].status = "running",
                           !.export_jobs[id].started = TRUE]
     ELSE db' = db
  /\ resp' = [Response("export_start", id, 200, "") EXCEPT
                !.detail = db.export_jobs[id].status]
  /\ UNCHANGED <<user, storage, import_jobs, import_row_errors, hist>>

\* run_export_job from build_export to its last commit, for a run that has
\* committed status 'running'.
run_export_finish(id) ==
  LET job == db.export_jobs[id]
  IN  /\ job.status = "running"
      /\ \E f \in {build_export(db, job.tenant_id, job.entity)} :
         \E dest \in {ExportPath(job.tenant_id, job.entity, f.name)} :
           /\ storage' = [storage EXCEPT !.exports = (dest :> FileContent(f)) @@ @]
           /\ db' = [db EXCEPT
                       !.export_jobs[id].file_url = dest,
                       !.export_jobs[id].file_name = f.name,
                       !.export_jobs[id].status = "completed",
                       !.export_jobs[id].finished = TRUE,
                       !.export_jobs[id].summary_json =
                          [exported |-> count_records(db, job.tenant_id, job.entity)]]
      /\ resp' = [Response("export_finish", id, 200, "") EXCEPT !.detail = "completed"]
      /\ UNCHANGED <<user, import_jobs, import_row_errors, hist>>

ExportJobNext ==
  \/ \E title \in NewTitles : create_questionnaire(title)
  \/ export_entity
  \/ \E id \in 1..Len(db.export_jobs) : run_export_start(id)
  \/ \E id \in 1..Len(db.export_jobs) : run_export_finish(id)

ExportJobSpec == ExportJobInit /\ [][ExportJobNext]_vars

(***************************************************************************)
(* The import requests of a user who uploads two clients files of one row  *)
(* each under the same name: the second upload replaces the stored file of *)
(* the first job, before or after that job was validated or confirmed.     *)
(***************************************************************************)
\* The rows of the file that is uploaded first: a client that is updated, or
\* one that is created
OverwriteFirstRows ==
  {<< <<"Z", "e", "d">>, <<>>, <<"C", "1">> >>, << <<"Z", "e", "d">>, D2, <<>> >>}

OverwriteWorkloads ==
  {[tenant_id |-> "t1", entity |-> "clients", mode |-> "upsert",
    files |-> {File(FileHeader["clients"], <<r[1]>>, 0),
               File(FileHeader["clients"], <<r[2]>>, 1)}] :
     r \in OverwriteFirstRows \X FileRows["clients"]}

OverwriteInit == InitWith(OverwriteWorkloads)

\* The user uploads each file once.
OverwriteNext ==
  \/ \E f \in user.files :
       /\ \A j \in DOMAIN import_jobs : import_jobs[j].file_hash # FileContent(f)
       /\ Upload(f)
  \/ \E id \in 1..Len(import_jobs) : Validate(id)
  \/ \E id \in 1..Len(import_jobs) : Confirm(id)
  \/ \E id \in 1..Len(import_jobs) : Worker(id)

OverwriteSpec == OverwriteInit /\ [][OverwriteNext]_vars

(***************************************************************************)
(* The import requests on clients files of two rows in which the text of a *)
(* CNPJ cell of one row may be the text of the code cell of another.       *)
(***************************************************************************)
CollideRows ==
  {<< <<"Z", "e", "d">>, <<"1", "2", "3">>, <<>> >>,
   << <<"Z", "e", "d">>, <<>>, <<"1", "2", "3">> >>,
   << <<"Z", "e", "d">>, D2, <<>> >>,
   << <<"Z", "e", "d">>, <<>>, D2 >>,
   << <<"Z", "e", "d">>, <<>>, <<"C", "1">> >>}

CollideWorkloads ==
  {[tenant_id |-> "t1", entity |-> "clients", mode |-> "upsert",
    files |-> {File(FileHeader["clients"], <<r[1], r[2]>>, 0)}] :
     r \in CollideRows \X CollideRows}

CollideInit == InitWith(CollideWorkloads)

CollideNext ==
  \/ \E f \in user.files : Upload(f)
  \/ \E id \in 1..Len(import_jobs) : Validate(id)
  \/ \E id \in 1..Len(import_jobs) : Confirm(id)
  \/ \E id \in 1..Len(import_jobs) : Worker(id)

CollideSpec == CollideInit /\ [][CollideNext]_vars

(***************************************************************************)
(* Two worker requests for one job at the same time: run_import_worker is  *)
(* called for a job in status queued or running, and each call runs run_job *)
(* in its own database session.  A session's statements see what was       *)
(* committed when they run and the session's own writes; here the           *)
(* statements of _apply_chunk of one call run at one instant, and its       *)
(* commit follows in a later step.  The files have fewer rows than a chunk. *)
(* The calls in flight are kept in resp.detail.                             *)
(***************************************************************************)
RaceWorkers == {1, 2}

RaceEntities == {"employees", "clients", "sites"}

RaceWorkloads ==
  UNION {{[tenant_id |-> "t1", entity |-> e, mode |-> "upsert",
           files |-> {File(FileHeader[e], <<r>>, 0)}] : r \in FileRows[e]} :
         e \in RaceEntities}

RaceInit == InitWith(RaceWorkloads)

\* The table of the records of an entity
TableOf(entity) ==
  CASE entity = "employees" -> "colaboradores"
    [] entity = "clients"   -> "clients"
    [] entity = "sites"     -> "sites"

\* A call that has not begun
IdleCall ==
  [at |-> "idle", inserts |-> <<>>, updates |-> {}, created |-> 0, updated |-> 0,
   skipped |-> 0]

\* The calls in flight
Calls == IF resp.op = "race" THEN resp.detail ELSE [w \in RaceWorkers |-> IdleCall]

\* The table after the commit of a session: the rows it updated and, after
\* them, the rows it inserted
Committed(table, call) ==
  [i \in 1..Len(table) |->
     IF \E u \in call.updates : u.id = i
     THEN CHOOSE u \in call.updates : u.id = i ELSE table[i]]
  \o [k \in 1..Len(call.inserts) |-> [call.inserts[k] EXCEPT !.id = Len(table) + k]]

\* run_import_worker and run_job up to the db.commit() of status 'running'
\* (importer.py line 304)
RaceStart(id, w) ==
  LET job == import_jobs[id]
  IN  /\ resp.op = "race" => resp.job_id = id
      /\ Calls[w].at = "idle"
      /\ job.entity \in RaceEntities
      /\ job.status \in {"queued", "running"}
      /\ storage.imports[job.file_url].readable
      /\ import_jobs' = [import_jobs EXCEPT ![id].status = "running", ![id].started = TRUE]
      /\ resp' = [Response("race", id, 0, "") EXCEPT
                    !.detail = [Calls EXCEPT ![w].at = "started"]]
      /\ UNCHANGED <<user, storage, import_row_errors, db, hist>>

\* The row loop of run_job and the statements of _apply_chunk before its
\* db.commit(): the lookups see the committed tables, the writes stay in the
\* session.  A statement that raises ends the call.
RaceApply(id, w) ==
  LET job  == import_jobs[id]
      t    == TableOf(job.entity)
  IN  /\ resp.op = "race" /\ resp.job_id = id
      /\ Calls[w].at = "started"
      /\ \E r \in {apply_chunk(db, job, ParsedBuffer(job, storage.imports[job.file_url]))} :
           resp' = [resp EXCEPT !.detail[w] =
                      IF r.raised # "" THEN [IdleCall EXCEPT !.at = "raised"]
                      ELSE [at |-> "applied",
                            inserts |-> SubSeq(r.db[t], Len(db[t]) + 1, Len(r.db[t])),
                            updates |-> {r.db[t][i] : i \in {n \in 1..Len(db[t]) :
                                                               r.db[t][n] # db[t][n]}},
                            created |-> r.created, updated |-> r.updated,
                            skipped |-> r.skipped]]
      /\ UNCHANGED <<user, storage, import_jobs, import_row_errors, db, hist>>

\* The db.commit() of _apply_chunk (line 616) and the rest of run_job: the job
\* is completed with the counts of this call.
RaceCommit(id, w) ==
  LET job  == import_jobs[id]
      t    == TableOf(job.entity)
  IN  /\ resp.op = "race" /\ resp.job_id = id
      /\ Calls[w].at = "applied"
      /\ db' = [db EXCEPT ![t] = Committed(@, Calls[w])]
      /\ import_jobs' = [import_jobs EXCEPT
                           ![id].status = "completed", ![id].finished = TRUE,
                           ![id].summary_json =
                              Summary(Calls[w].created, Calls[w].updated,
                                      Calls[w].skipped, 0)]
      /\ resp' = [resp EXCEPT !.detail[w].at = "done"]
      /\ UNCHANGED <<user, storage, import_row_errors, hist>>

\* No other request arrives while a call is in flight, and the task of a job
\* is delivered, once or twice, after the job was confirmed.
RaceNext ==
  \/ \E f \in user.files : resp.op # "race" /\ Upload(f)
  \/ \E id \in 1..Len(import_jobs) : resp.op # "race" /\ Validate(id)
  \/ \E id \in 1..Len(import_jobs) : resp.op # "race" /\ Confirm(id)
  \/ \E id \in 1..Len(import_jobs) : \E w \in RaceWorkers :
       hist[id].confirmed /\ RaceStart(id, w)
  \/ \E id \in 1..Len(import_jobs) : \E w \in RaceWorkers : RaceApply(id, w)
  \/ \E id \in 1..Len(import_jobs) : \E w \in RaceWorkers : RaceCommit(id, w)

RaceSpec == RaceInit /\ [][RaceNext]_vars

(***************************************************************************)
(* Templates: the user downloads the template of the entity, adds rows     *)
(* below its two rows and imports the workbook.                            *)
(***************************************************************************)
\* The instruction of every template column of ENTITY_CONFIGS[entity], in the
\* order of the columns
template_instructions ==
  [ employees |-> <<
        <<"O", "b", "r", "i", "g", "a", "t", "o", "r", "i", "o">>,
        <<"O", "b", "r", "i", "g", "a", "t", "o", "r", "i", "o">>,
        <<"O", "b", "r", "i", "g", "a", "t", "o", "r", "i", "o">>,
        <<"O", "p", "c", "i", "o", "n", "a", "l">>,
        <<"O", "p", "c", "i", "o", "n", "a", "l", " ", "(", "A", "T", "I", "V", "O", "/", "I", "N", "A", "T", "I", "V", "O", ")">>,
        <<"O", "p", "c", "i", "o", "n", "a", "l">>,
        <<"O", "p", "c", "i", "o", "n", "a", "l">>,
        <<"O", "p", "c", "i", "o", "n", "a", "l">>,
        <<"O", "p", "c", "i", "o", "n", "a", "l">>,
        <<"S", "e", "p", "a", "r", "a", "r", " ", "p", "o", "r", " ", ";">>,
        <<"O", "p", "c", "i", "o", "n", "a", "l">> >>,
    clients |-> <<
        <<"O", "b", "r", "i", "g", "a", "t", "o", "r", "i", "o">>,
        <<"O", "b", "r", "i", "g", "a", "t", "o", "r", "i", "o", " ", "s", "e", " ", "C", "N", "P", "J", " ", "v", "a", "z", "i", "o">>,
        <<"O", "b", "r", "i", "g", "a", "t", "o", "r", "i", "o", " ", "s", "e", " ", "c", "o", "d", "i", "g", "o", " ", "v", "a", "z", "i", "o">>,
        <<"O", "p", "c", "i", "o", "n", "a", "l", " ", "(", "a", "c", "t", "i", "v", "e", "/", "s", "u", "s", "p", "e", "n", "d", "e", "d", ")">>,
        <<"O", "p", "c", "i", "o", "n", "a", "l">>,
        <<"O", "p", "c", "i", "o", "n", "a", "l">> >>,
    sites |-> <<
        <<"O", "b", "r", "i", "g", "a", "t", "o", "r", "i", "o">>,
        <<"O", "b", "r", "i", "g", "a", "t", "o", "r", "i", "o">>,
        <<"O", "b", "r", "i", "g", "a", "t", "o", "r", "i", "o">>,
        <<"O", "p", "c", "i", "o", "n", "a", "l">>,
        <<"O", "p", "c", "i", "o", "n", "a", "l", " ", "(", "A", "T", "I", "V", "O", "/", "I", "N", "A", "T", "I", "V", "O", ")">>,
        <<"O", "p", "c", "i", "o", "n", "a", "l">> >>,
    assets |-> <<
        <<"O", "b", "r", "i", "g", "a", "t", "o", "r", "i", "o">>,
        <<"O", "b", "r", "i", "g", "a", "t", "o", "r", "i", "o">>,
        <<"O", "p", "c", "i", "o", "n", "a", "l">>,
        <<"O", "p", "c", "i", "o", "n", "a", "l">>,
        <<"O", "p", "c", "i", "o", "n", "a", "l">>,
        <<"O", "p", "c", "i", "o", "n", "a", "l">>,
        <<"O", "p", "c", "i", "o", "n", "a", "l">> >>,
    os_types |-> <<
        <<"O", "b", "r", "i", "g", "a", "t", "o", "r", "i", "o">>,
        <<"O", "p", "c", "i", "o", "n", "a", "l">>,
        <<"O", "p", "c", "i", "o", "n", "a", "l">>,
        <<"O", "p", "c", "i", "o", "n", "a", "l">>,
        <<"O", "p", "c", "i", "o", "n", "a", "l", " ", "(", "S", "I", "M", "/", "N", "A", "O", ")">> >>,
    questionnaires |-> <<
        <<"O", "b", "r", "i", "g", "a", "t", "o", "r", "i", "o">>,
        <<"O", "p", "c", "i", "o", "n", "a", "l", " ", "(", "p", "a", "d", "r", "a", "o", " ", "1", ")">>,
        <<"O", "b", "r", "i", "g", "a", "t", "o", "r", "i", "o">>,
        <<"S", "I", "M", "/", "N", "A", "O">>,
        <<"O", "b", "r", "i", "g", "a", "t", "o", "r", "i", "o">>,
        <<"S", "e", "p", "a", "r", "a", "r", " ", "p", "o", "r", " ", ";">> >> ]

\* build_template(entity): the sheet MODELO of the workbook, the row of the
\* labels and the row of the instructions
build_template(entity) ==
  [name   |-> "modelo_v1.xlsx",
   header |-> [i \in 1..Len(template_columns[entity]) |-> template_columns[entity][i].label],
   body   |-> <<template_instructions[entity]>>,
   salt   |-> 0, readable |-> TRUE]

\* The cells of a row of FileRows under the columns of the template: every
\* cell under the column of its label, the other columns empty
TemplateRow(entity, r) ==
  [i \in 1..Len(template_columns[entity]) |->
     IF \E k \in 1..Len(FileHeader[entity]) :
          FileHeader[entity][k] = template_columns[entity][i].label
     THEN r[CHOOSE k \in 1..Len(FileHeader[entity]) :
              FileHeader[entity][k] = template_columns[entity][i].label]
     ELSE <<>>]

\* The template of the entity with rows added below the instructions
FilledTemplate(entity, rows) ==
  [build_template(entity) EXCEPT
     !.body = @ \o [i \in 1..Len(rows) |-> TemplateRow(entity, rows[i])]]

\* One user of tenant t1 who imports the template of one entity with at most
\* MaxRows rows added.
TemplateWorkloads ==
  UNION {{[tenant_id |-> "t1", entity |-> e, mode |-> "upsert",
           files |-> {FilledTemplate(e, rows)}] : rows \in Bodies(e)} : e \in Entities}

TemplateInit == InitWith(TemplateWorkloads)

TemplateNext ==
  \/ \E f \in user.files : Upload(f)
  \/ \E id \in 1..Len(import_jobs) : Validate(id)
  \/ \E id \in 1..Len(import_jobs) : Confirm(id)
  \/ \E id \in 1..Len(import_jobs) : Worker(id)

TemplateSpec == TemplateInit /\ [][TemplateNext]_vars

(***************************************************************************)
(* The claims.                                                             *)
(***************************************************************************)
\* The job of the last request
LastJob == import_jobs[resp.job_id]

\* The rows of import_row_errors of a job
RowErrorsOf(id) == SelectSeq(import_row_errors, LAMBDA e : e.import_job_id = id)

\* C1: a worker run changes the business tables only for a job whose most
\* recent validation ended with zero errors and that was confirmed after it; a
\* job that was uploaded and never validated is never applied.
C1_AppliedOnlyAfterCleanValidationAndConfirm ==
  [][db' # db =>
       /\ hist[resp'.job_id].validation = "passed"
       /\ hist[resp'.job_id].confirmed]_vars

\* C2: once a job is completed, no request changes its status, its summary
\* or its preview.
C2_CompletedJobIsFrozen ==
  [][\A id \in 1..Len(import_jobs) :
       import_jobs[id].status = "completed" =>
         /\ import_jobs'[id].status = import_jobs[id].status
         /\ import_jobs'[id].summary_json = import_jobs[id].summary_json
         /\ import_jobs'[id].preview_json = import_jobs[id].preview_json]_vars

\* C3: after a validation that ran to completion the job is ready_to_confirm
\* exactly when no row error is stored for it and failed otherwise, and a
\* failed job carries the reference of an error report that storage holds.
C3_StatusFollowsRowErrors ==
  (resp.op = "validate" /\ resp.code = 200) =>
    /\ LastJob.status = "ready_to_confirm" <=> RowErrorsOf(resp.job_id) = <<>>
    /\ LastJob.status = "failed" <=> RowErrorsOf(resp.job_id) # <<>>
    /\ LastJob.status = "failed" =>
         /\ LastJob.error_report_url = ErrorReportPath(LastJob)
         /\ LastJob.error_report_url \in DOMAIN storage.errors

\* A validation that collected exactly one row error and left the job failed
C3_Witness ==
  /\ resp.op = "validate" /\ resp.code = 200
  /\ Len(RowErrorsOf(resp.job_id)) = 1
  /\ LastJob.status = "failed"

\* The file of a job, as storage holds it
FileOf(job) == storage.imports[job.file_url]

\* The data rows of a file: the rows after the empty second row, or after the
\* header where the file has no such row (an exported file)
DataRows(file) ==
  IF file.body # <<>> /\ file.body[1] = EmptyRow(Len(file.header))
  THEN Tail(file.body) ELSE file.body

\* A workbook whose header lacks the required column DroppedColumn of its
\* entity
LacksRequiredColumn(entity, file) ==
  file.readable /\ Len(file.header) < Len(FileHeader[entity])

\* C4: a validate request on a file whose header lacks a required column is
\* answered with ImportValidationError naming that column and leaves the job
\* failed; it stores no preview and no summary, creates no row error, writes
\* no report and touches no business record.
C4_MissingColumnFailsBeforeRows ==
  [][(resp'.op = "validate"
      /\ LacksRequiredColumn(user.entity, FileOf(import_jobs[resp'.job_id]))) =>
       /\ resp'.code = 400
       /\ resp'.raised = "ImportValidationError"
       /\ resp'.detail =
            <<Upper(FileHeader[user.entity][DroppedColumn[user.entity]])>>
       /\ import_jobs'[resp'.job_id] =
            [import_jobs[resp'.job_id] EXCEPT !.status = "failed"]
       /\ import_row_errors' = import_row_errors
       /\ storage' = storage
       /\ db' = db]_vars

\* A file of one data row without a required column was validated: the request
\* raised, the job is failed and has neither preview nor row errors.
C4_Witness ==
  /\ resp.op = "validate" /\ resp.raised = "ImportValidationError"
  /\ LacksRequiredColumn(user.entity, FileOf(LastJob))
  /\ DataRows(FileOf(LastJob)) # <<>>
  /\ LastJob.status = "failed"
  /\ LastJob.preview_json = Null
  /\ RowErrorsOf(resp.job_id) = <<>>

\* The non-blank data rows of the file of a job, as run_job parses them
ParsedRows(job) ==
  LET read == iter_rows(FileOf(job))
  IN  parse_buffer(job.entity, canonical_headers(job.entity, read.header), read.rows, 1,
                   [errors |-> <<>>, buffer |-> <<>>]).buffer

\* What apply counts: the parsed rows, or for questionnaires the first row of
\* each (title, version) group.
Units(job) ==
  CHOOSE units \in
    {IF job.entity # "questionnaires" THEN rows
     ELSE [i \in 1..Len(group_keys(rows, 1, <<>>)) |->
             group_items(rows, group_keys(rows, 1, <<>>)[i])[1]] :
       rows \in {ParsedRows(job)}} : TRUE

\* The units whose record the datastore d holds
ExistingUnits(d, job, units) ==
  {i \in 1..Len(units) : detect_existing(d, job.entity, job.tenant_id, units[i]) # NoId}

\* The tables of d begin with the records of c, unchanged
Extends(d, c) ==
  \A t \in DOMAIN c : Len(d[t]) >= Len(c[t]) /\ SubSeq(d[t], 1, Len(c[t])) = c[t]

\* C5: a worker run in create_only mode changes no record that existed before
\* it and counts no update; in update_only mode it adds no record of any
\* entity and counts no creation.  The rows (questionnaire groups) of the
\* disallowed case are counted as skipped, and a run made only of them leaves
\* the datastore as it was.
C5_ModesSkipDisallowedRows ==
  [][(resp'.op = "worker" /\ runs(import_jobs[resp'.job_id])) =>
       LET job  == import_jobs[resp'.job_id]
           done == resp'.code = 200
           sum  == import_jobs'[resp'.job_id].summary_json
       IN  \A units \in {Units(job)} : \A old \in {ExistingUnits(db, job, units)} :
           /\ job.mode = "create_only" =>
                /\ Extends(db', db)
                /\ done => sum.updated = 0 /\ sum.skipped >= Cardinality(old)
                /\ (done /\ Cardinality(old) = Len(units)) =>
                     sum.skipped = Len(units) /\ db' = db
           /\ job.mode = "update_only" =>
                /\ \A t \in DOMAIN db \ {"questionnaire_items"} : Len(db'[t]) = Len(db[t])
                /\ done => sum.created = 0
                /\ (done /\ old = {}) => sum.skipped = Len(units) /\ db' = db]_vars

\* A confirmed job in create_only mode was applied: one of its rows named a
\* record that existed and was skipped, another was created.
C5_Witness ==
  /\ resp.op = "worker" /\ resp.code = 200
  /\ LastJob.mode = "create_only"
  /\ hist[resp.job_id].validation = "passed" /\ hist[resp.job_id].confirmed
  /\ LastJob.status = "completed"
  /\ LastJob.summary_json.skipped = 1
  /\ LastJob.summary_json.created = 1

\* C6: when a job in upsert mode whose file validates with zero errors is
\* applied a second time, on the datastore that its first apply left, the run
\* completes, counts every row (questionnaire group) as updated and none as
\* created, and no table of entities grows.
C6_SecondUpsertOnlyUpdates ==
  [][(/\ resp'.op = "worker"
      /\ import_jobs[resp'.job_id].mode = "upsert"
      /\ import_jobs[resp'.job_id].status = "queued"
      /\ hist[resp'.job_id].applied = "once"
      /\ hist[resp'.job_id].clean
      /\ hist[resp'.job_id].validation = "passed"
      /\ hist[resp'.job_id].confirmed) =>
       /\ resp'.code = 200
       /\ import_jobs'[resp'.job_id].summary_json.created = 0
       /\ import_jobs'[resp'.job_id].summary_json.updated =
            Len(Units(import_jobs[resp'.job_id]))
       /\ \A t \in DOMAIN db \ {"questionnaire_items"} : Len(db'[t]) = Len(db[t])]_vars

\* The number of data rows of a file that have a cell that is not blank
NonBlankRows(file) ==
  Cardinality({i \in 1..Len(DataRows(file)) : ~IsBlankRow(DataRows(file)[i])})

\* C7: a worker run on a job whose validation found no error and that was
\* confirmed completes with errors_count = 0 and with created + updated +
\* skipped equal to the number of non-blank data rows of the file.
C7_ApplySummaryCountsEveryRow ==
  [][(/\ resp'.op = "worker"
      /\ import_jobs[resp'.job_id].status = "queued"
      /\ hist[resp'.job_id].validation = "passed"
      /\ hist[resp'.job_id].confirmed) =>
       LET sum == import_jobs'[resp'.job_id].summary_json
       IN  /\ resp'.code = 200
           /\ sum.errors_count = 0
           /\ sum.created + sum.updated + sum.skipped =
                NonBlankRows(FileOf(import_jobs[resp'.job_id]))]_vars

\* The rows that the reader yields for the file of a job; row i of them has
\* the row number i + 2.
YieldedRows(job) == iter_rows(FileOf(job)).rows

\* For each yielded row: <<its identity>> when the row is not blank and a group
\* of unique keys matches it, << >> otherwise.
Identities(job) ==
  LET read  == iter_rows(FileOf(job))
      canon == canonical_headers(job.entity, read.header)
      data(i) == ParseRow(job.entity, canon, read.rows[i], i + 2, TRUE).data
  IN  [i \in 1..Len(read.rows) |->
         IF ~IsBlankRow(read.rows[i]) /\ has_unique_key(data(i), unique_key_groups[job.entity])
         THEN <<resolve_unique_key(data(i), unique_key_groups[job.entity])>>
         ELSE <<>>]

\* The whole-row duplicate errors stored for a row of a job
DuplicateErrors(id, row_number) ==
  SelectSeq(RowErrorsOf(id),
            LAMBDA e : /\ e.row_number = row_number
                       /\ e.field = "__unique__"
                       /\ e.message = <<"Chave unica duplicada no arquivo">>)

\* C8: after a validation of a job of another entity than questionnaires, a
\* row whose identity an earlier row of the file has carries exactly one
\* whole-row duplicate error, a row that is the first of its identity carries
\* none, and a file with a repeated identity leaves the job failed; a
\* questionnaires job has no duplicate error at all.
C8_DuplicateIdentities ==
  (resp.op = "validate" /\ resp.code = 200) =>
    \A ids \in {Identities(LastJob)} :
      LET repeated(i) == ids[i] # <<>> /\ \E j \in 1..(i - 1) : ids[j] = ids[i]
          dups(i) == Len(DuplicateErrors(resp.job_id, i + 2))
      IN  IF LastJob.entity = "questionnaires"
          THEN \A i \in 1..Len(ids) : dups(i) = 0
          ELSE /\ \A i \in 1..Len(ids) : dups(i) = IF repeated(i) THEN 1 ELSE 0
               /\ (\E i \in 1..Len(ids) : repeated(i)) => LastJob.status = "failed"

\* Two data rows with the same identity were validated: the second has one
\* duplicate error, the first has none, the job is failed.
C8_Witness ==
  /\ resp.op = "validate" /\ resp.code = 200
  /\ LastJob.entity # "questionnaires"
  /\ Len(YieldedRows(LastJob)) = 2
  /\ Identities(LastJob)[1] # <<>>
  /\ Identities(LastJob)[2] = Identities(LastJob)[1]
  /\ Len(DuplicateErrors(resp.job_id, 4)) = 1
  /\ Len(DuplicateErrors(resp.job_id, 3)) = 0
  /\ LastJob.status = "failed"

\* The yielded rows of a job that are not blank and have a blank cell, or no
\* cell, in a column that the template requires
RowsLackingRequired(job) ==
  LET read  == iter_rows(FileOf(job))
      canon == canonical_headers(job.entity, read.header)
      cols  == template_columns[job.entity]
      blank(row, key) == \A p \in 1..Len(canon) :
                           canon[p] = key => (p > Len(row) \/ Strip(row[p]) = <<>>)
  IN  {i \in 1..Len(read.rows) :
         /\ ~IsBlankRow(read.rows[i])
         /\ \E c \in 1..Len(cols) : cols[c].required /\ blank(read.rows[i], cols[c].key)}

\* C9: after a validation, the preview counts as created, updated or skipped
\* at most the non-blank rows that have all their required fields, no sample
\* lacks a required field, and every non-blank row that lacks one has an entry
\* among the row errors, which the error count includes.
C9_RowsLackingRequiredAreErrors ==
  (resp.op = "validate" /\ resp.code = 200) =>
    \A lacking \in {RowsLackingRequired(LastJob)} :
      LET preview == LastJob.preview_json
          cols    == template_columns[LastJob.entity]
      IN  /\ preview.created + preview.updated + preview.skipped
               <= NonBlankRows(FileOf(LastJob)) - Cardinality(lacking)
          /\ \A k \in 1..Len(preview.samples) : \A c \in 1..Len(cols) :
               cols[c].required =>
                 /\ cols[c].key \in DOMAIN preview.samples[k]
                 /\ preview.samples[k][cols[c].key] # <<>>
          /\ \A i \in lacking :
               \E k \in 1..Len(import_row_errors) :
                 /\ import_row_errors[k].import_job_id = resp.job_id
                 /\ import_row_errors[k].row_number = i + 2
          /\ preview.errors = Len(RowErrorsOf(resp.job_id))
          /\ preview.errors >= Cardinality(lacking)

\* A file with a row that has all its required fields and a row that lacks
\* one was validated: one row is counted, the other has an error.
C9_Witness ==
  /\ resp.op = "validate" /\ resp.code = 200
  /\ Cardinality(RowsLackingRequired(LastJob)) = 1
  /\ NonBlankRows(FileOf(LastJob)) = 2
  /\ LastJob.preview_json.created + LastJob.preview_json.updated
       + LastJob.preview_json.skipped = 1
  /\ Len(LastJob.preview_json.samples) = 1

\* The columns of an entity that refer to a parent record
ReferenceColumns ==
  [ sites    |-> {"customer_account_cnpj", "customer_account_name"},
    assets   |-> {"client_cnpj", "client_code", "site_code"},
    os_types |-> {"client_cnpj", "client_code"} ]

\* The columns that refer to the same parent as a column does
SameParent(key) ==
  IF key \in {"customer_account_cnpj", "customer_account_name"}
  THEN {"customer_account_cnpj", "customer_account_name"}
  ELSE IF key \in {"client_cnpj", "client_code"} THEN {"client_cnpj", "client_code"}
  ELSE {"site_code"}

\* Some record of the tenant has the value in the field that the column names
MatchesParent(d, tenant_id, key, value) ==
  CASE key = "customer_account_cnpj" ->
         \E k \in 1..Len(d.customer_accounts) :
           d.customer_accounts[k].tenant_id = tenant_id /\ d.customer_accounts[k].cnpj = value
    [] key = "customer_account_name" ->
         \E k \in 1..Len(d.customer_accounts) :
           d.customer_accounts[k].tenant_id = tenant_id /\ d.customer_accounts[k].name = value
    [] key = "client_cnpj" ->
         \E k \in 1..Len(d.clients) :
           d.clients[k].tenant_id = tenant_id /\ d.clients[k].document = value
    [] key = "client_code" ->
         \E k \in 1..Len(d.clients) :
           d.clients[k].tenant_id = tenant_id /\ d.clients[k].client_code = value
    [] key = "site_code" ->
         \E k \in 1..Len(d.sites) :
           d.sites[k].tenant_id = tenant_id /\ d.sites[k].code = value

\* The pairs <<i, key>> of a yielded row and a reference column of it whose
\* cell is not blank and whose value, as its transformer leaves it, no record
\* of the tenant of the job has
DanglingReferences(d, job) ==
  LET read  == iter_rows(FileOf(job))
      canon == canonical_headers(job.entity, read.header)
  IN  {ref \in (1..Len(read.rows)) \X ReferenceColumns[job.entity] :
         \E p \in 1..Len(canon) :
           /\ canon[p] = ref[2]
           /\ p <= Len(read.rows[ref[1]])
           /\ Strip(read.rows[ref[1]][p]) # <<>>
           /\ ~MatchesParent(d, job.tenant_id, ref[2],
                             Transform(job.entity, ref[2], Strip(read.rows[ref[1]][p])).value)}

\* C10: after a validation of a sites, assets or os_types job, every row with
\* a parent identifier that no record of the tenant has carries an error on a
\* column that refers to that parent, and the job is failed.
C10_DanglingReferenceIsFieldError ==
  (/\ resp.op = "validate" /\ resp.code = 200
   /\ LastJob.entity \in DOMAIN ReferenceColumns) =>
    \A dangling \in {DanglingReferences(db, LastJob)} :
      /\ \A ref \in dangling :
           \E k \in 1..Len(import_row_errors) :
             /\ import_row_errors[k].import_job_id = resp.job_id
             /\ import_row_errors[k].row_number = ref[1] + 2
             /\ import_row_errors[k].field \in SameParent(ref[2])
      /\ dangling # {} => LastJob.status = "failed"

\* C11: when the file of an upsert job is what build_export gives for the
\* tenant's records as the datastore holds them, its validation returns with
\* zero errors and counts every exported row as updated, none as created or
\* skipped.
C11_ExportRoundTrips ==
  (/\ resp.op = "validate"
   /\ LastJob.mode = "upsert"
   /\ FileOf(LastJob) = FileContent(build_export(db, LastJob.tenant_id, LastJob.entity))) =>
    /\ resp.code = 200
    /\ LastJob.preview_json.errors = 0
    /\ LastJob.preview_json.updated = Len(FileOf(LastJob).body)
    /\ LastJob.preview_json.created = 0
    /\ LastJob.preview_json.skipped = 0

\* C12: a header cell that is the label of a template column in another letter
\* case, with accents or with spaces at its ends resolves to the key that the
\* label itself resolves to, which is the key of that column.
C12_HeaderVariantsResolveAlike ==
  resp.op = "header" =>
    /\ resp.detail =
         canonical_headers(user.entity, <<template_columns[user.entity][user.column].label>>)
    /\ resp.detail = <<template_columns[user.entity][user.column].key>>

\* An upper-case label between spaces was resolved to the key of its column.
C12_Witness ==
  /\ resp.op = "header"
  /\ \E f \in user.files :
       /\ f.header[1] # template_columns[user.entity][user.column].label
       /\ Head(f.header[1]) \in Whitespace
       /\ Lower(f.header[1]) # f.header[1]
  /\ resp.detail = <<template_columns[user.entity][user.column].key>>

\* The table of an entity, the attribute of its records that holds the name,
\* and the key of the column that is mapped to it
NameField ==
  [employees      |-> [table |-> "colaboradores", attr |-> "nome", key |-> "nome"],
   clients        |-> [table |-> "clients", attr |-> "name", key |-> "name"],
   sites          |-> [table |-> "sites", attr |-> "name", key |-> "name"],
   assets         |-> [table |-> "assets", attr |-> "name", key |-> "name"],
   os_types       |-> [table |-> "os_types", attr |-> "name", key |-> "name"],
   questionnaires |-> [table |-> "questionnaires", attr |-> "title", key |-> "title"]]

\* C13: when a worker run in upsert mode applies a file of one row (one
\* questionnaire group) that matches an existing record and has a name, the
\* record holds that name after the run.
C13_UpsertStoresRowFields ==
  [][(/\ resp'.op = "worker"
      /\ import_jobs[resp'.job_id].mode = "upsert"
      /\ runs(import_jobs[resp'.job_id])) =>
       \A job \in {import_jobs[resp'.job_id]} : \A units \in {Units(job)} :
         (/\ Len(units) = 1
          /\ Truthy(units[1], NameField[job.entity].key)
          /\ detect_existing(db, job.entity, job.tenant_id, units[1]) # NoId) =>
            db'[NameField[job.entity].table]
               [detect_existing(db, job.entity, job.tenant_id, units[1])]
               [NameField[job.entity].attr] = units[1][NameField[job.entity].key]]_vars

\* The jobs of the tenant and entity of the user whose file hash is that of f
JobsOfContent(jobs, f) ==
  {j \in DOMAIN jobs : /\ jobs[j].tenant_id = user.tenant_id
                       /\ jobs[j].entity = user.entity
                       /\ jobs[j].file_hash = FileContent(f)}

\* C14: after an upload no two import jobs share (tenant, entity, file hash),
\* and an upload by a user each of whose files is the content of an earlier
\* job of the tenant and entity is answered with a client error and creates no
\* job, whatever the status of the earlier job.
C14_IdenticalUploadRejected ==
  [][resp'.op = "upload" =>
       /\ \A i, j \in DOMAIN import_jobs' :
            (/\ import_jobs'[i].tenant_id = import_jobs'[j].tenant_id
             /\ import_jobs'[i].entity = import_jobs'[j].entity
             /\ import_jobs'[i].file_hash = import_jobs'[j].file_hash) => i = j
       /\ (\A f \in user.files : JobsOfContent(import_jobs, f) # {}) =>
            /\ resp'.code \in 400..499
            /\ import_jobs' = import_jobs]_vars

\* What an uninterrupted run of the job makes of the datastore that the killed
\* run of the job started from
Uninterrupted(id) ==
  run_job(hist[id].interrupted.db, import_jobs[id], FileOf(import_jobs[id]))

\* C15: when the worker of a job was killed after it had committed a chunk
\* (group), which left the job running, and the next request runs the worker
\* of the job again, that run completes and leaves the business records that
\* an uninterrupted run would have made of the datastore the killed run began
\* with.
C15_RerunAfterCrashEqualsApply ==
  [][(/\ resp'.op = "worker"
      /\ resp.op = "killed"
      /\ resp.job_id = resp'.job_id
      /\ hist[resp.job_id].interrupted # Null
      /\ hist[resp.job_id].interrupted.commits >= 1
      /\ Uninterrupted(resp.job_id).raised = "") =>
       /\ import_jobs[resp.job_id].status = "running"
       /\ resp'.code = 200
       /\ import_jobs'[resp.job_id].status = "completed"
       /\ db' = Uninterrupted(resp.job_id).db]_vars

\* The rows of import_row_errors that belong to other jobs than id
RowErrorsOfOthers(table, id) == SelectSeq(table, LAMBDA e : e.import_job_id # id)

\* C16: a validate request leaves every table of business records as it was;
\* of the job table it changes the row of its job only, and of the row errors
\* those of its job only.
C16_ValidateLeavesBusinessRecords ==
  [][resp'.op = "validate" =>
       /\ db' = db
       /\ Len(import_jobs') = Len(import_jobs)
       /\ \A j \in DOMAIN import_jobs : j # resp'.job_id => import_jobs'[j] = import_jobs[j]
       /\ RowErrorsOfOthers(import_row_errors', resp'.job_id) =
            RowErrorsOfOthers(import_row_errors, resp'.job_id)]_vars

\* A validation counted a record to create and one to update, and the
\* datastore still holds the records it was seeded with.
C16_Witness ==
  /\ resp.op = "validate" /\ resp.code = 200
  /\ LastJob.preview_json.created >= 1
  /\ LastJob.preview_json.updated >= 1
  /\ db = SeedDB

\* C17: a validate request, or a worker request that gets past the check of
\* the status, on a job whose stored file is no workbook raises the error of
\* the reader and leaves the job with the status it had before the request.
C17_ReadFailureKeepsStatus ==
  [][(/\ resp'.op \in {"validate", "worker"}
      /\ ~FileOf(import_jobs[resp'.job_id]).readable
      /\ resp'.op = "worker" => runs(import_jobs[resp'.job_id])) =>
       /\ resp'.code = 500
       /\ resp'.raised = BadZipFile
       /\ import_jobs'[resp'.job_id].status = import_jobs[resp'.job_id].status]_vars

\* C18: a confirm request moves its job to queued, and is answered 200, only
\* when the job is ready_to_confirm; on a job of any other status it is
\* answered with a client error and leaves the job table as it was.
C18_ConfirmOnlyWhenReady ==
  [][resp'.op = "confirm" =>
       /\ (resp'.code = 200 \/ import_jobs' # import_jobs) =>
            /\ import_jobs[resp'.job_id].status = "ready_to_confirm"
            /\ import_jobs' = [import_jobs EXCEPT ![resp'.job_id].status = "queued"]
       /\ import_jobs[resp'.job_id].status # "ready_to_confirm" =>
            /\ resp'.code \in 400..499
            /\ import_jobs' = import_jobs]_vars

\* A job whose validation found row errors was confirmed: the request was
\* rejected and the job is still failed.
C18_Witness ==
  /\ resp.op = "confirm" /\ resp.code = 400
  /\ LastJob.status = "failed"
  /\ hist[resp.job_id].validation = "failed"
  /\ ~hist[resp.job_id].confirmed

\* The jobs that a worker request is applying: their status is running and
\* the request has not ended
BeingApplied ==
  {j \in DOMAIN import_jobs : import_jobs[j].status = "running" /\ hist[j].inflight}

\* C20: no two import jobs of the same tenant and entity are being applied at
\* the same moment.
C20_OneRunningJobPerEntity ==
  \A i, j \in BeingApplied :
    (/\ import_jobs[i].tenant_id = import_jobs[j].tenant_id
     /\ import_jobs[i].entity = import_jobs[j].entity) => i = j

\* The rows of a table of row errors that belong to the job id
RowErrorsIn(table, id) == SelectSeq(table, LAMBDA e : e.import_job_id = id)

\* C19: after every validation pass of a job that ran to its end, the row
\* errors of the job are the errors that this pass collected from the file as
\* it is stored then, one row each and in the order of the pass: none of an
\* earlier pass remains, and a pass without errors leaves none.
C19_RowErrorsAreOfLastPass ==
  [][(resp'.op = "validate" /\ resp'.code = 200) =>
       \A pass \in {validate_job(db, import_jobs[resp'.job_id],
                                 FileOf(import_jobs[resp'.job_id]))} :
         /\ RowErrorsIn(import_row_errors', resp'.job_id) =
              RowErrorRecords(resp'.job_id, pass.errors)
         /\ pass.errors = <<>> => RowErrorsIn(import_row_errors', resp'.job_id) = <<>>]_vars

\* A job whose earlier pass had stored a row error was validated again, on the
\* file that a later upload had put in its place, and has no row error left.
C19_Witness ==
  /\ resp.op = "validate" /\ resp.code = 200
  /\ hist[resp.job_id].validation = "passed"
  /\ RowErrorsOf(resp.job_id) = <<>>
  /\ LastJob.error_report_url # NoUrl
  /\ LastJob.file_hash # FileOf(LastJob)

\* The number of cells of a row that are empty or contain an instruction
\* keyword
HitCount(row) == Cardinality({i \in 1..Len(row) : is_hit(row[i])})

\* The rows of a job with a row error, by their row number
RowsInError(id) ==
  {import_row_errors[k].row_number :
     k \in {n \in 1..Len(import_row_errors) : import_row_errors[n].import_job_id = id}}

\* C21: after a validation of a file with at least one row after the header,
\* the reader has dropped the first of these rows exactly when at least 60% of
\* its cells are empty or contain an instruction keyword; a first row with
\* fewer such cells is kept, and the validation accounts for every non-blank
\* row of the file, as counted in the preview or as a row in error.
C21_InstructionRowRule ==
  (resp.op = "validate" /\ resp.code = 200 /\ FileOf(LastJob).body # <<>>) =>
    \A body \in {FileOf(LastJob).body} :
      /\ (Len(YieldedRows(LastJob)) = Len(body) - 1)
           <=> (10 * HitCount(body[1]) >= 6 * Len(body[1]))
      /\ 10 * HitCount(body[1]) < 6 * Len(body[1]) =>
           LastJob.preview_json.created + LastJob.preview_json.updated
             + LastJob.preview_json.skipped + Cardinality(RowsInError(resp.job_id))
           = Cardinality({i \in 1..Len(body) : ~IsBlankRow(body[i])})


\* C22: after a validation, the row number of every row error of the job is
\* the position, counted from 1 with the header as row 1, of a row of the
\* source file that holds data: that row exists and is not blank.  With the
\* first data row directly after the header, an error of that row carries 2.
C22_RowNumberIsSourcePosition ==
  (resp.op = "validate" /\ resp.code = 200) =>
    \A body \in {FileOf(LastJob).body} :
      /\ \A p \in RowsInError(resp.job_id) :
           /\ p - 1 \in 1..Len(body)
           /\ ~IsBlankRow(body[p - 1])
      /\ (body # <<>> /\ ~is_instruction_row(StripCells(body[1]))
            /\ Len(body) = 1 /\ RowsInError(resp.job_id) # {})
           => RowsInError(resp.job_id) = {2}


\* C23: the normalisation of a header cell made of words of letters with
\* spaces, hyphens or underscores between them is the words in lower case
\* with one underscore between them: every run of separators has become one
\* underscore, no letter has changed, and so the cell normalises to the same
\* text as the same words typed with underscores.
C23_SeparatorsNormalizeAlike ==
  resp.op = "normalize" =>
    /\ resp.detail = JoinWith([k \in 1..Len(user.words) |-> Lower(user.words[k])], <<"_">>)
    /\ resp.detail = normalize_header(JoinWith(user.words, <<"_">>))


\* The customer accounts of a tenant that have every identifier (CNPJ, name)
\* that the parsed row supplies
AccountsMatching(d, tenant_id, data) ==
  {k \in 1..Len(d.customer_accounts) :
     /\ d.customer_accounts[k].tenant_id = tenant_id
     /\ Truthy(data, "customer_account_cnpj")
          => d.customer_accounts[k].cnpj = data["customer_account_cnpj"]
     /\ Truthy(data, "customer_account_name")
          => d.customer_accounts[k].name = data["customer_account_name"]}

\* C24: after a validation of a sites job, every non-blank row that supplies
\* neither a usable CNPJ nor a name of a customer account, or whose identifiers
\* not exactly one customer account of the tenant has, carries the not-found
\* error on the field customer_account_cnpj.
C24_AccountCheckNeedsOneMatch ==
  (resp.op = "validate" /\ resp.code = 200 /\ LastJob.entity = "sites") =>
    LET read  == iter_rows(FileOf(LastJob))
        canon == canonical_headers("sites", read.header)
    IN  \A i \in 1..Len(read.rows) :
          LET data == ParseRow("sites", canon, read.rows[i], i + 2, TRUE).data
              supplies == \/ Truthy(data, "customer_account_cnpj")
                          \/ Truthy(data, "customer_account_name")
          IN  (/\ ~IsBlankRow(read.rows[i])
               /\ \/ ~supplies
                  \/ Cardinality(AccountsMatching(db, LastJob.tenant_id, data)) # 1) =>
                \E k \in 1..Len(import_row_errors) :
                  /\ import_row_errors[k].import_job_id = resp.job_id
                  /\ import_row_errors[k].row_number = i + 2
                  /\ import_row_errors[k].field = "customer_account_cnpj"
                  /\ import_row_errors[k].message = <<"Cliente nao encontrado pelo CNPJ">>


\* The columns that hold a CNPJ
CnpjColumns == {"document", "customer_account_cnpj", "client_cnpj"}

\* C25: after a validation, every cell of a CNPJ column that is not blank and
\* whose digits are not exactly 14 (a cell without any digit included) has a
\* "CNPJ invalido" error on its row and field.
C25_EveryBadCnpjIsFieldError ==
  (resp.op = "validate" /\ resp.code = 200) =>
    LET read  == iter_rows(FileOf(LastJob))
        canon == canonical_headers(LastJob.entity, read.header)
    IN  \A i \in 1..Len(read.rows) : \A p \in 1..Len(canon) :
          (/\ canon[p] \in CnpjColumns
           /\ p <= Len(read.rows[i])
           /\ Strip(read.rows[i][p]) # <<>>
           /\ Len(SelectChars(read.rows[i][p], Digits)) # 14) =>
            \E k \in 1..Len(import_row_errors) :
              /\ import_row_errors[k].import_job_id = resp.job_id
              /\ import_row_errors[k].row_number = i + 2
              /\ import_row_errors[k].field = canon[p]
              /\ import_row_errors[k].message = <<"CNPJ invalido">>


\* The items of a questionnaire in the datastore d, in table order
ChildrenOf(d, qid) ==
  SelectSeq(d.questionnaire_items, LAMBDA it : it.questionnaire_id = qid)

\* The rows, of the parsed rows of a questionnaires file, that have a title
\* and the given (title, version), in file order
RowsOfKey(rows, key) ==
  SelectSeq(rows, LAMBDA row : /\ Truthy(row, "title")
                               /\ row["title"] = key.title
                               /\ VersionOr1(row) = key.version)

\* The (title, version) keys of the parsed rows of a questionnaires file
KeysOf(rows) ==
  {[title |-> rows[n]["title"], version |-> VersionOr1(rows[n])] :
     n \in {m \in 1..Len(rows) : Truthy(rows[m], "title")}}

\* C26: when a worker run on a questionnaires job in upsert mode returns, each
\* (title, version) of the file has one questionnaire of the tenant, whose
\* items are the rows of the file with that key, in file order, with
\* order_index 0..n-1 and nothing else; every questionnaire whose key the file
\* does not hold has the items it had.
C26_QuestionnaireItemsReplaced ==
  [][(/\ resp'.op = "worker" /\ resp'.raised = ""
      /\ import_jobs[resp'.job_id].entity = "questionnaires"
      /\ import_jobs[resp'.job_id].mode = "upsert") =>
       \A job \in {import_jobs[resp'.job_id]} :
       \A rows \in {ParsedRows(job)} :
       \A keys \in {KeysOf(rows)} :
         /\ \A key \in keys :
              \A parents \in {{q \in 1..Len(db'.questionnaires) :
                                 /\ db'.questionnaires[q].tenant_id = job.tenant_id
                                 /\ db'.questionnaires[q].title = key.title
                                 /\ db'.questionnaires[q].version = key.version}} :
                /\ Cardinality(parents) = 1
                /\ \A q \in parents :
                     \A mine \in {RowsOfKey(rows, key)} :
                     \A kids \in {ChildrenOf(db', q)} :
                       /\ Len(kids) = Len(mine)
                       /\ \A n \in 1..Len(kids) :
                            /\ kids[n].order_index = n - 1
                            /\ kids[n].question_text = Get(mine[n], "question_text")
                            /\ kids[n].answer_type = Get(mine[n], "answer_type")
                            /\ kids[n].required = Truthy(mine[n], "required")
                            /\ kids[n].items = GetOrDefault(mine[n], "items", <<>>)
         /\ \A q \in 1..Len(db.questionnaires) :
              (\/ db.questionnaires[q].tenant_id # job.tenant_id
               \/ [title |-> db.questionnaires[q].title,
                   version |-> db.questionnaires[q].version] \notin keys) =>
                ChildrenOf(db', q) = ChildrenOf(db, q)]_vars

\* An upsert run has returned on a file with two rows of the key (Q1, 1), whose
\* questionnaire had one other item before: it now has these two rows as items
\* and not the item it had.
C26_Witness ==
  /\ resp.op = "worker" /\ resp.raised = ""
  /\ LastJob.entity = "questionnaires" /\ LastJob.mode = "upsert"
  /\ LastJob.status = "completed"
  /\ Len(RowsOfKey(ParsedRows(LastJob), [title |-> <<"Q", "1">>, version |-> 1])) = 2
  /\ Len(ChildrenOf(SeedDB, 1)) = 1
  /\ Len(ChildrenOf(db, 1)) = 2
  /\ \A n \in 1..2 : ChildrenOf(db, 1)[n] # ChildrenOf(SeedDB, 1)[1]


\* The rows of the source file that the reader yields, with their cells as
\* the file holds them
SourceRows(file) ==
  IF file.body # <<>> /\ is_instruction_row(StripCells(file.body[1]))
  THEN Tail(file.body) ELSE file.body

\* The lines of an error report for the given rows, of which row i has the row
\* number i + 2: one line for each row that has a stored row error of the job,
\* in file order, with the cells of the row, the status marker, the distinct
\* fields of its errors and all their messages.
ReportLines(id, rows) ==
  LET of(i) == SelectSeq(RowErrorsOf(id), LAMBDA e : e.row_number = i + 2)
      hit == SelectSeq([i \in 1..Len(rows) |-> i], LAMBDA i : of(i) # <<>>)
  IN  [k \in 1..Len(hit) |->
         [cells    |-> rows[hit[k]],
          status   |-> "ERRO",
          fields   |-> {of(hit[k])[n].field : n \in 1..Len(of(hit[k]))},
          messages |-> [n \in 1..Len(of(hit[k])) |-> of(hit[k])[n].message]]]

\* C27 as stated: after a validation that found row errors, the lines of the
\* error report are one line for each source row with a row error and none for
\* the others, each with the cells of the source row as the file holds them.
C27_ReportRowsAreOriginalCells ==
  (resp.op = "validate" /\ resp.code = 200 /\ RowErrorsOf(resp.job_id) # <<>>) =>
    /\ LastJob.error_report_url \in DOMAIN storage.errors
    /\ storage.errors[LastJob.error_report_url].rows
         = ReportLines(resp.job_id, SourceRows(FileOf(LastJob)))

\* C27, amended: after a validation that found row errors, the lines of the
\* error report are one line for each source row with a row error and none for
\* the others, each with the cells of the source row without the whitespace at
\* their ends, followed by the status marker, the distinct fields and all the
\* messages of the row's errors; its header is the header of the file, read
\* the same way, and the three added columns.
C27_ReportRowsAreReadCells ==
  (resp.op = "validate" /\ resp.code = 200 /\ RowErrorsOf(resp.job_id) # <<>>) =>
    /\ LastJob.error_report_url \in DOMAIN storage.errors
    /\ \A report \in {storage.errors[LastJob.error_report_url]} :
       \A source \in {SourceRows(FileOf(LastJob))} :
         /\ report.rows
              = ReportLines(resp.job_id, [i \in 1..Len(source) |-> StripCells(source[i])])
         /\ report.header
              = StripCells(FileOf(LastJob).header)
                  \o << <<"__status">>, <<"__error_fields">>, <<"__messages">> >>

\* A validation has found an error in the second of two data rows and none in
\* the first: the report has one line, which is that of the second row, and a
\* cell of it has lost the spaces at its ends.
C27_Witness ==
  /\ resp.op = "validate" /\ resp.code = 200
  /\ Len(SourceRows(FileOf(LastJob))) = 2
  /\ RowsInError(resp.job_id) = {4}
  /\ Len(storage.errors[LastJob.error_report_url].rows) = 1
  /\ storage.errors[LastJob.error_report_url].rows[1].cells
       = StripCells(SourceRows(FileOf(LastJob))[2])
  /\ storage.errors[LastJob.error_report_url].rows[1].cells
       # SourceRows(FileOf(LastJob))[2]


\* C28: a worker run on a job, of any entity, whose status is neither queued
\* nor running leaves the job row and every business record as they were.
C28_RunNeedsQueuedOrRunning ==
  [][(/\ resp'.op = "worker"
      /\ import_jobs[resp'.job_id].status \notin {"queued", "running"}) =>
       /\ import_jobs'[resp'.job_id] = import_jobs[resp'.job_id]
       /\ db' = db]_vars


RECURSIVE Flatten(_)
\* The chunks one after the other
Flatten(chunks) == IF chunks = <<>> THEN <<>> ELSE Head(chunks) \o Flatten(Tail(chunks))

\* What applying the given rows once each, in order, to the seed datastore
\* gives: the datastore and the counts
AppliedInOrder(job, rows) ==
  apply_rows(job, rows, 1,
             [db |-> SeedDB, raised |-> "", created |-> 0, updated |-> 0, skipped |-> 0])

\* C29: in a run with ChunkSize rows per chunk, after every commit of a chunk
\* the chunks passed to _apply_chunk are, one after the other, the non-blank
\* rows of the file up to the position of the loop, each chunk has ChunkSize
\* rows unless it is the last of the file, and the datastore holds what
\* applying exactly these rows once each in file order gives; when the run has returned, the chunks are all the
\* non-blank rows of the file, only the last chunk may have fewer rows, and
\* the datastore and the counts of the summary are those of applying every row
\* once in file order.
C29_EveryRowOnceInOrder ==
  /\ resp.op = "run" =>
       \A rows \in {ParsedRows(LastJob)} : \A passed \in {Flatten(resp.detail.passed)} :
         /\ passed = SubSeq(rows, 1, resp.detail.next - 1)
         /\ \A k \in 1..Len(resp.detail.passed) :
              /\ Len(resp.detail.passed[k]) \in 1..ChunkSize
              /\ (k < Len(resp.detail.passed) \/ resp.detail.next <= Len(rows))
                   => Len(resp.detail.passed[k]) = ChunkSize
         /\ db = AppliedInOrder(LastJob, passed).db
  /\ (resp.op = "worker" /\ resp.code = 200) =>
       \A rows \in {ParsedRows(LastJob)} : \A once \in {AppliedInOrder(LastJob, rows)} :
         /\ Flatten(resp.detail) = rows
         /\ \A k \in 1..Len(resp.detail) :
              /\ Len(resp.detail[k]) \in 1..ChunkSize
              /\ k < Len(resp.detail) => Len(resp.detail[k]) = ChunkSize
         /\ db = once.db
         /\ LastJob.summary_json.created = once.created
         /\ LastJob.summary_json.updated = once.updated
         /\ LastJob.summary_json.skipped = once.skipped
         /\ once.created + once.updated + once.skipped = Len(rows)

\* A run has returned on a file of five non-blank rows: two full chunks and a
\* final chunk of one row were passed.
C29_Witness ==
  /\ resp.op = "worker" /\ resp.code = 200
  /\ Len(ParsedRows(LastJob)) = 5
  /\ Len(resp.detail) = 3
  /\ Len(resp.detail[1]) = ChunkSize /\ Len(resp.detail[2]) = ChunkSize
  /\ Len(resp.detail[3]) = 1
  /\ LastJob.status = "completed"


\* The identity that a parsed row should have: << the texts of the fields of
\* the first declared group of unique keys whose fields the row all has, none
\* of them empty >>, or << >> when there is no such group.
IdentityOf(entity, data) ==
  LET groups == unique_key_groups[entity]
      full == {g \in 1..Len(groups) :
                 \A k \in 1..Len(groups[g]) : ~Missing(data, groups[g][k])}
  IN  IF full = {} THEN <<>>
      ELSE LET g == CHOOSE n \in full : \A m \in full : n <= m
           IN  <<[k \in 1..Len(groups[g]) |-> Strip(ToText(data, groups[g][k]))]>>

\* The identity of each yielded row of the file of a job, << >> for a blank row
IdentitiesOf(job) ==
  LET read  == iter_rows(FileOf(job))
      canon == canonical_headers(job.entity, read.header)
  IN  [i \in 1..Len(read.rows) |->
         IF IsBlankRow(read.rows[i]) THEN <<>>
         ELSE IdentityOf(job.entity, ParseRow(job.entity, canon, read.rows[i], i + 2, TRUE).data)]

\* C30: after a validation, a non-blank row has the whole-row error "Chave
\* unica nao encontrada" exactly when no group of unique keys has all its
\* fields present and non-empty in the row; and, for the entities that detect
\* duplicates, a row with an identity has the whole-row duplicate error
\* exactly when an earlier row has the same identity, the identity being the
\* values of the first declared group that the row fills.
C30_IdentityIsFirstFilledGroup ==
  (resp.op = "validate" /\ resp.code = 200) =>
    \A ids \in {IdentitiesOf(LastJob)} : \A rows \in {YieldedRows(LastJob)} :
      \A i \in 1..Len(rows) :
        ~IsBlankRow(rows[i]) =>
          /\ (ids[i] = <<>>) <=>
               \E k \in 1..Len(import_row_errors) :
                 /\ import_row_errors[k].import_job_id = resp.job_id
                 /\ import_row_errors[k].row_number = i + 2
                 /\ import_row_errors[k].field = "__unique__"
                 /\ import_row_errors[k].message = <<"Chave unica nao encontrada">>
          /\ (LastJob.entity # "questionnaires" /\ ids[i] # <<>>) =>
               ((DuplicateErrors(resp.job_id, i + 2) # <<>>)
                  <=> \E j \in 1..(i - 1) : ids[j] = ids[i])

\* A validation of a clients file of two rows has given the first, which has
\* a CNPJ, the identity of the group (document) and the second, whose CNPJ
\* cell is empty, that of the later group (client_code); the second is no
\* duplicate of the first.
C30_Witness ==
  /\ resp.op = "validate" /\ resp.code = 200
  /\ LastJob.entity = "clients"
  /\ Len(YieldedRows(LastJob)) = 2
  /\ Len(IdentitiesOf(LastJob)[1]) = 1 /\ Len(IdentitiesOf(LastJob)[2]) = 1
  /\ YieldedRows(LastJob)[1][2] # <<>>
  /\ YieldedRows(LastJob)[2][2] = <<>>
  /\ IdentitiesOf(LastJob)[1] # IdentitiesOf(LastJob)[2]
  /\ DuplicateErrors(resp.job_id, 4) = <<>>


\* C31: a validation of a readable file whose header has every required
\* column is answered without an exception, whatever the cells of its rows
\* hold: the job ends in ready_to_confirm or failed, failed exactly when row
\* errors were stored, and every non-blank row the reader yields is either in
\* error or counted once in the preview.
C31_RowContentsNeverAbort ==
  (/\ resp.op = "validate"
   /\ FileOf(LastJob).readable
   /\ missing_required(LastJob.entity,
        canonical_headers(LastJob.entity, iter_rows(FileOf(LastJob)).header)) = <<>>) =>
    \A rows \in {YieldedRows(LastJob)} : \A bad \in {RowsInError(resp.job_id)} :
      /\ resp.code = 200
      /\ resp.raised = ""
      /\ LastJob.status \in {"ready_to_confirm", "failed"}
      /\ (LastJob.status = "failed") <=> (bad # {})
      /\ bad \subseteq {i + 2 : i \in 1..Len(rows)}
      /\ LastJob.preview_json.errors = Len(RowErrorsOf(resp.job_id))
      /\ LastJob.preview_json.created + LastJob.preview_json.updated
           + LastJob.preview_json.skipped
         = Cardinality({i \in 1..Len(rows) : ~IsBlankRow(rows[i]) /\ i + 2 \notin bad})

\* A validation that ended failed with every one of two rows in error, one of
\* them for a cell its transformer refused
C31_Witness ==
  /\ resp.op = "validate"
  /\ resp.code = 200
  /\ LastJob.status = "failed"
  /\ Cardinality(RowsInError(resp.job_id)) = 2
  /\ \E k \in 1..Len(import_row_errors) :
       /\ import_row_errors[k].import_job_id = resp.job_id
       /\ import_row_errors[k].message[1] = "Valor invalido para"


\* The records of the entity that a workbook of build_export holds: its rows,
\* and for questionnaires, whose rows are the questions, the distinct
\* (title, version) pairs of its rows
RecordsWritten(entity, file) ==
  IF entity = "questionnaires"
  THEN Cardinality({<<file.body[i][1], file.body[i][2]>> : i \in 1..Len(file.body)})
  ELSE Len(file.body)

\* C32: a step changes the row of an export job only from queued to running or
\* from running to completed, so a worker call on a completed job changes
\* nothing; and the step that completes a job leaves it with the reference of
\* a stored file and a summary whose exported count is the number of records
\* in that file.
C32_ExportJobLifecycle ==
  [][\A id \in DOMAIN db.export_jobs :
       \A old \in {db.export_jobs[id]} : \A new \in {db'.export_jobs[id]} :
         old # new =>
           /\ <<old.status, new.status>>
                \in {<<"queued", "running">>, <<"running", "completed">>}
           /\ new.status = "completed" =>
                /\ new.file_url \in DOMAIN storage'.exports
                /\ new.summary_json # Null
                /\ new.summary_json.exported
                     = RecordsWritten(new.entity, storage'.exports[new.file_url])]_vars


\* The yielded rows of a questionnaires file that are not blank, have a title
\* and leave the version cell blank (or have no version column)
BlankVersionRows(job) ==
  LET read  == iter_rows(FileOf(job))
      canon == canonical_headers(job.entity, read.header)
      cell(row, key) == {Strip(row[p]) : p \in {q \in 1..Len(canon) :
                                                  q <= Len(row) /\ canon[q] = key}}
  IN  {i \in 1..Len(read.rows) :
         /\ ~IsBlankRow(read.rows[i])
         /\ cell(read.rows[i], "version") \subseteq {<<>>}
         /\ cell(read.rows[i], "title") \ {<<>>} # {}}

\* C33: after a validation of a questionnaires file, a row with a title and a
\* blank version has no whole-row identity error; and where such a row is the
\* only row of the file and has no error, the preview counts it as updated when
\* the tenant has a questionnaire of that title with version 1 (skipped in mode
\* create_only), and as created otherwise.
C33_BlankVersionIsVersionOne ==
  (resp.op = "validate" /\ resp.code = 200 /\ LastJob.entity = "questionnaires") =>
    \A rows \in {YieldedRows(LastJob)} : \A i \in BlankVersionRows(LastJob) :
      /\ ~\E k \in 1..Len(import_row_errors) :
            /\ import_row_errors[k].import_job_id = resp.job_id
            /\ import_row_errors[k].row_number = i + 2
            /\ import_row_errors[k].field = "__unique__"
      /\ (Len(rows) = 1 /\ RowsInError(resp.job_id) = {}) =>
           \A exists \in {\E q \in 1..Len(db.questionnaires) :
                            /\ db.questionnaires[q].tenant_id = LastJob.tenant_id
                            /\ db.questionnaires[q].version = 1
                            /\ \E p \in 1..Len(rows[i]) :
                                 db.questionnaires[q].title = Strip(rows[i][p])} :
             /\ LastJob.preview_json.updated
                  = (IF exists /\ LastJob.mode # "create_only" THEN 1 ELSE 0)
             /\ LastJob.preview_json.created
                  = (IF ~exists /\ LastJob.mode # "update_only" THEN 1 ELSE 0)


\* C34: no step changes the stored file of a job whose last validation passed
\* and that has not been applied yet; and a worker run that applies such a job
\* reads from its file the rows that this validation read and kept as the
\* samples of the preview.
C34_ApplyReadsValidatedContent ==
  [][/\ \A id \in DOMAIN import_jobs :
          (/\ hist[id].validation = "passed"
           /\ hist[id].applied = "never"
           /\ import_jobs[id].status \in {"ready_to_confirm", "queued", "running"})
            => storage'.imports[import_jobs[id].file_url]
                 = storage.imports[import_jobs[id].file_url]
     /\ \A id \in {resp'.job_id} \cap DOMAIN import_jobs :
          (/\ resp'.op = "worker"
           /\ hist[id].validation = "passed"
           /\ hist[id].applied = "never"
           /\ hist'[id].applied = "once")
            => ParsedRows(import_jobs[id]) = import_jobs[id].preview_json.samples]_vars


\* C35: a worker run that applies, for an entity other than questionnaires, a
\* job whose validation found no error, on the datastore that this validation
\* saw, completes with a summary whose created, updated and skipped counts are
\* those of the preview.
C35_SummaryEqualsPreview ==
  [][\A id \in {resp'.job_id} \cap DOMAIN import_jobs :
       \A job \in {import_jobs[id]} :
         (/\ resp'.op = "worker"
          /\ job.entity # "questionnaires"
          /\ job.status = "queued"
          /\ hist[id].validation = "passed"
          /\ hist[id].confirmed
          /\ hist[id].applied = "never"
          /\ db = SeedDB)
           => /\ resp'.code = 200
              /\ import_jobs'[id].status = "completed"
              /\ import_jobs'[id].summary_json.created = job.preview_json.created
              /\ import_jobs'[id].summary_json.updated = job.preview_json.updated
              /\ import_jobs'[id].summary_json.skipped = job.preview_json.skipped]_vars


\* The position, in the declared order, of the first group of unique keys whose
\* fields a parsed row all has, none of them empty; 0 when there is none
GroupOf(entity, data) ==
  LET groups == unique_key_groups[entity]
      full == {g \in 1..Len(groups) :
                 \A k \in 1..Len(groups[g]) : ~Missing(data, groups[g][k])}
  IN  IF full = {} THEN 0 ELSE CHOOSE n \in full : \A m \in full : n <= m

\* C36: after a validation, a row that carries the whole-row duplicate error
\* has an identity, and an earlier non-blank row of the file has resolved its
\* identity through the same group of unique keys with equal values.
C36_DuplicateOnlyWithinGroup ==
  (resp.op = "validate" /\ resp.code = 200 /\ LastJob.entity # "questionnaires") =>
    \A rows \in {YieldedRows(LastJob)} :
    \A data \in {[i \in 1..Len(rows) |->
                    ParseRow(LastJob.entity,
                             canonical_headers(LastJob.entity,
                                               iter_rows(FileOf(LastJob)).header),
                             rows[i], i + 2, TRUE).data]} :
      \A i \in 1..Len(rows) :
        DuplicateErrors(resp.job_id, i + 2) # <<>> =>
          /\ GroupOf(LastJob.entity, data[i]) # 0
          /\ \E j \in 1..(i - 1) :
               /\ ~IsBlankRow(rows[j])
               /\ GroupOf(LastJob.entity, data[j]) = GroupOf(LastJob.entity, data[i])
               /\ IdentityOf(LastJob.entity, data[j]) = IdentityOf(LastJob.entity, data[i])


\* Two records of one tenant in the table of employees, clients or sites that
\* have the same e-mail, the same CNPJ or client code, or the same site code
TwinRecords(d) ==
  LET twins(table, field) ==
        \E i \in 1..Len(table) : \E j \in 1..Len(table) :
          /\ i < j
          /\ table[i].tenant_id = table[j].tenant_id
          /\ table[i][field] # None
          /\ table[i][field] = table[j][field]
  IN  \/ twins(d.colaboradores, "email")
      \/ twins(d.clients, "document")
      \/ twins(d.clients, "client_code")
      \/ twins(d.sites, "code")

\* C37: whatever two worker calls for one job do, the datastore never holds
\* two employees of a tenant with the same e-mail, two clients with the same
\* CNPJ or the same code, or two sites with the same code.
C37_NoTwinRecords == ~TwinRecords(db)

\* The tables whose records carry a tenant_id.
TenantTables ==
  {"colaboradores", "clients", "customer_accounts", "sites", "assets", "os_types",
   "questionnaires"}

\* The datastore d as a job of tenant sees it if the records of the other
\* tenants held nothing: they keep their id and their tenant, every other
\* field is None.
HideOthers(d, tenant) ==
  [t \in DOMAIN d |->
     IF t \notin TenantTables THEN d[t]
     ELSE [i \in 1..Len(d[t]) |->
             IF d[t][i].tenant_id = tenant THEN d[t][i]
             ELSE [f \in DOMAIN d[t][i] |->
                     IF f \in {"id", "tenant_id"} THEN d[t][i][f] ELSE None]]]

\* In d the records of before that belong to another tenant are as they were,
\* the records added since belong to tenant, and no client, site or customer
\* account of another tenant is the parent of a record of tenant.
OthersUntouched(before, d, tenant) ==
  /\ \A t \in TenantTables :
       /\ Len(d[t]) >= Len(before[t])
       /\ \A i \in 1..Len(d[t]) :
            IF i <= Len(before[t]) /\ before[t][i].tenant_id # tenant
            THEN d[t][i] = before[t][i]
            ELSE d[t][i].tenant_id = tenant
  /\ \A a \in {d.assets[i] : i \in 1..Len(d.assets)} :
       a.tenant_id = tenant =>
         /\ a.client_id # NoId => d.clients[a.client_id].tenant_id = tenant
         /\ a.site_id # NoId => d.sites[a.site_id].tenant_id = tenant
  /\ \A o \in {d.os_types[i] : i \in 1..Len(d.os_types)} :
       o.tenant_id = tenant /\ o.client_id # NoId
         => d.clients[o.client_id].tenant_id = tenant
  /\ \A s \in {d.sites[i] : i \in 1..Len(d.sites)} :
       s.tenant_id = tenant /\ s.customer_account_id # NoId
         => d.customer_accounts[s.customer_account_id].tenant_id = tenant

\* C38: validation and apply of a job see and touch only the records of the
\* job's tenant.  For every job and the file stored for it, validate_job gives
\* the same verdict, errors and summary whether or not the records of the
\* other tenants hold their values, run_job ends with the same job row and the
\* same records of the job's tenant either way, and run_job leaves every
\* record of another tenant as it was, adds records of the job's tenant only
\* and gives them parents of the job's tenant only.
C38_TenantIsolation ==
  \A id \in 1..Len(import_jobs) :
    \A job \in {import_jobs[id]} :
      \A file \in {storage.imports[job.file_url]} :
        \A hidden \in {HideOthers(db, job.tenant_id)} :
          /\ validate_job(db, job, file) = validate_job(hidden, job, file)
          /\ \A r \in {run_job(db, job, file)} :
               \A h \in {run_job(hidden, job, file)} :
                 /\ r.job = h.job
                 /\ r.raised = h.raised
                 /\ HideOthers(r.db, job.tenant_id) = h.db
                 /\ OthersUntouched(db, r.db, job.tenant_id)

\* A job of tenant t1 has been applied and created a client with the CNPJ of
\* the client of tenant t2, which is as it was.
C38_Witness ==
  /\ resp.op = "worker" /\ resp.code = 200
  /\ \E i \in 1..Len(db.clients) : \E c \in {db.clients[i]} : c.tenant_id = "t1" /\ c.document = D2
  /\ db.clients[2] = SeedDB.clients[2]
  /\ db.clients[2].tenant_id = "t2" /\ db.clients[2].document = D2

\* C39: a job whose status is ready_to_confirm has no error report reference:
\* after a job that failed validation is validated again and passes without
\* errors, the answer of GET /bulk/import/{job_id} shows no error report.
C39_NoReportOnReadyJob ==
  \A id \in 1..Len(import_jobs) :
    \A shown \in {get_import_job(import_jobs[id])} :
      shown.status = "ready_to_confirm" => shown.error_report_url = Null

\* C40: for every entity the row of instructions of build_template is an
\* instruction row for the reader, which yields no row of the unfilled
\* template; of a template with rows added the reader yields the added rows,
\* all of them and in their order, and a validation of the workbook reports
\* and counts the added rows only: every row error is on one of them (row 3
\* onwards) and every added row that is not blank is in error or counted once.
C40_TemplateInstructionsDropped ==
  /\ \A e \in Entities :
       \A unfilled \in {build_template(e)} :
         /\ is_instruction_row(StripCells(unfilled.body[1]))
         /\ iter_rows(unfilled).rows = <<>>
  /\ \A f \in user.files :
       \A added \in {Tail(f.body)} :
         /\ iter_rows(f).rows = [i \in 1..Len(added) |-> StripCells(added[i])]
         /\ (resp.op = "validate" /\ resp.code = 200) =>
              \A bad \in {RowsInError(resp.job_id)} :
                /\ bad \subseteq {i + 2 : i \in 1..Len(added)}
                /\ LastJob.preview_json.created + LastJob.preview_json.updated
                     + LastJob.preview_json.skipped
                   = Cardinality({i \in 1..Len(added) :
                                    ~IsBlankRow(added[i]) /\ i + 2 \notin bad})

\* The template of an entity with two rows added was validated: one row is in
\* error, the other is counted, and the row of instructions is neither.
C40_Witness ==
  /\ resp.op = "validate" /\ resp.code = 200
  /\ FileOf(LastJob).body[1] = template_instructions[LastJob.entity]
  /\ Len(FileOf(LastJob).body) = 3
  /\ RowsInError(resp.job_id) = {4}
  /\ LastJob.preview_json.created + LastJob.preview_json.updated = 1

=============================================================================
